---------------------------- MODULE Spec2Model ----------------------------
(***************************************************************************)
(* Scrcpy Ultra Launcher (src/main.py): the device directory               *)
(* (_scan_devices, _update_device_dropdown), the hotplug watcher           *)
(* (DeviceMonitor) with its debounce timer, and the session supervisor     *)
(* (_on_start_clicked and the Monitoring / Silent supervision tasks).      *)
(*                                                                         *)
(* The Tk control thread runs one handler at a time, so every handler is   *)
(* one action.  Background threads (DeviceMonitor.run, the reader and the  *)
(* watch thread of a Monitoring session) are split at their blocking       *)
(* calls.  after(0, f) appends f to afterQueue; after(n, f) with n > 0 is  *)
(* a pending timer that fires at some later moment.                        *)
(***************************************************************************)
EXTENDS Integers, Sequences, FiniteSets, TLC

None == "None"

\* None as the value of a field that holds a process (an index of trackers
\* or of children) or the id of a timer.
NoProcess == 0
NoTimer == 0

(***************************************************************************)
(* Bounds of the model.                                                    *)
(***************************************************************************)
MaxDevices == 2      \* entries of one "adb devices" output
MaxSessions == 2     \* mirroring children spawned in one run
MaxChildLines == 1   \* output lines written by one mirroring child
MaxTrackers == 2     \* "adb track-devices" subprocesses spawned in one run
MaxTrackLines == 3   \* lines written by one tracking subprocess
MaxEdits == 2        \* changes the user makes to parameters and options
MaxScanTimers == 2   \* enumerations waiting on an after() timer at one time

(***************************************************************************)
(* Text of the bridge tool's device list.  A line is a sequence of tokens; *)
(* TAB and SP are the whitespace tokens.                                   *)
(***************************************************************************)
TAB == "\t"
SP == " "
Whitespace == {TAB, SP}

UsbSerials == {"usb1"}
WirelessSerials == {"10.0.0.1:5555"}
Serials == UsbSerials \cup WirelessSerials
\* A second device on the network, of the same make as the first.
TwinSerial == "10.0.0.2:5555"
Statuses == {"device", "offline", "unauthorized"}

HeaderLine == <<"List", SP, "of", SP, "devices", SP, "attached">>

\* One entry of the device list as the bridge tool prints it; pad is the
\* trailing whitespace of the line.
FormatEntry(e, pad) == <<e.serial, TAB, e.status>> \o pad

\* "adb devices" output: the header, one line per entry, one empty line.
FormatDevicesOutput(entries, pad) ==
    <<HeaderLine>> \o [i \in 1..Len(entries) |-> FormatEntry(entries[i], pad)] \o << <<>> >>

(***************************************************************************)
(* str.strip() and str.split() as _scan_devices uses them.                 *)
(***************************************************************************)
RECURSIVE LStrip(_)
LStrip(line) ==
    IF line # <<>> /\ Head(line) \in Whitespace THEN LStrip(Tail(line)) ELSE line

RECURSIVE RStrip(_)
RStrip(line) ==
    IF line # <<>> /\ line[Len(line)] \in Whitespace
    THEN RStrip(SubSeq(line, 1, Len(line) - 1))
    ELSE line

StripLine(line) == RStrip(LStrip(line))

IsBlank(line) == \A i \in 1..Len(line) : line[i] \in Whitespace

RECURSIVE DropBlankHead(_)
DropBlankHead(lines) ==
    IF lines # <<>> /\ IsBlank(Head(lines)) THEN DropBlankHead(Tail(lines)) ELSE lines

RECURSIVE DropBlankTail(_)
DropBlankTail(lines) ==
    IF lines # <<>> /\ IsBlank(lines[Len(lines)])
    THEN DropBlankTail(SubSeq(lines, 1, Len(lines) - 1))
    ELSE lines

\* result.stdout.strip().split("\n"): the whitespace around the whole text
\* goes, and the empty text still splits into one empty line.
StripSplit(stdout) ==
    LET kept == DropBlankTail(DropBlankHead(stdout))
        n == Len(kept)
    IN  IF n = 0 THEN << <<>> >>
        ELSE [i \in 1..n |->
                LET a == IF i = 1 THEN LStrip(kept[i]) ELSE kept[i]
                IN  IF i = n THEN RStrip(a) ELSE a]

HasTab(line) == \E i \in 1..Len(line) : line[i] = TAB

FirstTab(line) == CHOOSE i \in 1..Len(line) :
                      line[i] = TAB /\ \A j \in 1..(i - 1) : line[j] # TAB

\* The text of a token sequence; a one-token text is the token itself.
Join(tokens) == IF Len(tokens) = 1 THEN tokens[1] ELSE tokens

\* line.split("\t", 1)
SplitTab(line) ==
    LET t == FirstTab(line)
    IN  [serial |-> Join(SubSeq(line, 1, t - 1)),
         status |-> SubSeq(line, t + 1, Len(line))]

StatusIsReady_NotOffline(status) == status # <<"offline">>

\* status == "device"
StatusIsReady(status) == status = <<"device">>

\* lines[1:]
SkipHeader(lines) == Tail(lines)

RECURSIVE ParseLines(_)
ParseLines(lines) ==
    IF lines = <<>> THEN <<>>
    ELSE LET line == StripLine(Head(lines))
             rest == ParseLines(Tail(lines))
         IN  IF line # <<>> /\ HasTab(line) /\ StatusIsReady(SplitTab(line).status)
             THEN <<SplitTab(line).serial>> \o rest
             ELSE rest

\* The parse of _scan_devices: the serials of the ready entries, in order.
ParseDevices(stdout) == ParseLines(SkipHeader(StripSplit(stdout)))

(***************************************************************************)
(* Texts.  LOCALE[key][lang] is one text per key and language; a display   *)
(* label is the record of the parts its f-string is built from.            *)
(***************************************************************************)
Langs == {"zh", "en"}

Locale(key, lang) ==
    CASE key = "scanning" -> IF lang = "zh" THEN "zh:scanning" ELSE "Scanning..."
      [] key = "no_device" -> IF lang = "zh" THEN "zh:no_device" ELSE "No device found"
      [] key = "device_wireless" -> IF lang = "zh" THEN "zh:wireless" ELSE "Wireless"
      [] key = "device_unauthorized" -> IF lang = "zh" THEN "zh:unauthorized" ELSE "Unauthorized"

Label(manufacturer, model, serial, suffix) ==
    [manufacturer |-> manufacturer, model |-> model, serial |-> serial, suffix |-> suffix,
     text |-> ""]

\* The text that is a serial and nothing else.
SerialText(serial) == Label("", "", serial, "")

\* A text that is no device label (a placeholder of the selector).
Text(t) == [manufacturer |-> "", model |-> "", serial |-> "", suffix |-> "", text |-> t]

\* re.match(r'^\d+\.\d+\.\d+\.\d+:\d+$', serial)
IsWireless(serial) == serial \in WirelessSerials \cup {TwinSerial}

\* What the two getprop queries of one device end in.
QueryOutcomes == {"named", "blank", "timeout", "error"}

\* ro.product.manufacturer and ro.product.model of the attached devices.
DeviceProps(serial) == [manufacturer |-> "Sample", model |-> "X1"]

GetDeviceDisplayName(serial, outcome, lang) ==
    LET wireless_suffix == Locale("device_wireless", lang)
        unauthorized_suffix == Locale("device_unauthorized", lang)
        p == DeviceProps(serial)
    IN  CASE outcome = "named" ->
                IF IsWireless(serial)
                THEN Label(p.manufacturer, p.model, "", wireless_suffix)
                ELSE Label(p.manufacturer, p.model, serial, "")
          [] outcome = "blank" ->
                IF IsWireless(serial) THEN Label("", "", serial, wireless_suffix)
                ELSE Label("", "", serial, "")
          [] outcome = "timeout" ->
                IF IsWireless(serial) THEN Label("", "", serial, wireless_suffix)
                ELSE Label("", "", serial, unauthorized_suffix)
          [] outcome = "error" ->
                IF IsWireless(serial) THEN Label("", "", serial, wireless_suffix)
                ELSE Label("", "", serial, "")

EmptyMap == [l \in {} |-> None]

\* self._device_serial_map[display_name] = serial
MapPut(map, name, serial) ==
    [l \in DOMAIN map \cup {name} |-> IF l = name THEN serial ELSE map[l]]

\* The loop of _scan_devices over device_serials: the labels, and the map
\* from label to serial, filled in order.
RECURSIVE BuildMap(_, _, _)
BuildMap(names, serials, map) ==
    IF names = <<>> THEN map
    ELSE BuildMap(Tail(names), Tail(serials), MapPut(map, Head(names), Head(serials)))

DisplayNames(serials, outcomes, lang) ==
    [i \in 1..Len(serials) |-> GetDeviceDisplayName(serials[i], outcomes[serials[i]], lang)]

(***************************************************************************)
(* AutoConfig.generate_recommendation on the hardware of the run.          *)
(***************************************************************************)
NoScreen == <<>>

\* "wm size" of the attached devices; NoScreen when the query yields no size.
DeviceScreen(serial) ==
    CASE serial = "usb1" -> <<1080, 2400>>
      [] serial = "10.0.0.1:5555" -> <<1880, 3008>>
      [] serial = TwinSerial -> <<1880, 3008>>
      [] OTHER -> NoScreen

Max(a, b) == IF a >= b THEN a ELSE b

GenerateRecommendation_Inclusive(pc_ram, screen_size) ==
    LET max_dimension == IF screen_size # NoScreen THEN Max(screen_size[1], screen_size[2]) ELSE 0
    IN  IF max_dimension >= 2500 /\ pc_ram >= 16
        THEN [resolution |-> "2K (2560)", fps |-> "60 fps", bitrate |-> 20,
              codec |-> "H.264 (Low Latency)"]
        ELSE [resolution |-> "1080P (1920)", fps |-> "60 fps", bitrate |-> 10,
              codec |-> "H.264 (Low Latency)"]

GenerateRecommendation(pc_ram, screen_size) ==
    LET max_dimension == IF screen_size # NoScreen THEN Max(screen_size[1], screen_size[2]) ELSE 0
    IN  IF max_dimension > 2500 /\ pc_ram >= 16
        THEN [resolution |-> "2K (2560)", fps |-> "60 fps", bitrate |-> 20,
              codec |-> "H.264 (Low Latency)"]
        ELSE [resolution |-> "1080P (1920)", fps |-> "60 fps", bitrate |-> 10,
              codec |-> "H.264 (Low Latency)"]

\* The values _create_variables gives the stream parameters.
DefaultParams ==
    [resolution |-> "1080P (1920)", fps |-> "60 fps", bitrate |-> 16,
     codec |-> "H.264 (Low Latency)"]

(***************************************************************************)
(* AutoConfig: the three queries and generate_recommendation.  What the    *)
(* host and the device answer is a record probe: ram is the answer of      *)
(* psutil in units of 512 MiB, wm the output of "wm size" as lines, getprop*)
(* the output of "getprop ro.product.model" as tokens.                     *)
(***************************************************************************)
\* return 8, of get_pc_ram_gb
RamDefault == 8

\* get_pc_ram_gb: int(ram_bytes / (1024 ** 3)), or the default.
GetPcRamGb(ram) ==
    IF ram.status = "ok" THEN ram.units \div 2 ELSE RamDefault

\* The first line of lines that matches Physical size:\s*(\d+)x(\d+)
RECURSIVE FirstPhysical(_)
FirstPhysical(lines) ==
    IF lines = <<>> THEN NoScreen
    ELSE IF Head(lines).label = "Physical size" THEN <<Head(lines).w, Head(lines).h>>
    ELSE FirstPhysical(Tail(lines))

\* The first line of lines that matches (\d+)x(\d+)
RECURSIVE FirstSize(_)
FirstSize(lines) ==
    IF lines = <<>> THEN NoScreen
    ELSE IF Head(lines).label \in {"Physical size", "Override size"}
         THEN <<Head(lines).w, Head(lines).h>>
    ELSE FirstSize(Tail(lines))

\* get_device_screen_size: (width, height), or None.
GetDeviceScreenSize(wm) ==
    IF wm.status # "ok" THEN NoScreen
    ELSE IF FirstPhysical(wm.lines) # NoScreen THEN FirstPhysical(wm.lines)
    ELSE FirstSize(wm.lines)

ModelDefault_Empty == <<>>

\* "Unknown", of get_device_model
ModelDefault == <<"Unknown">>

\* get_device_model: result.stdout.strip() or "Unknown"
GetDeviceModel(getprop) ==
    IF getprop.status # "ok" THEN ModelDefault
    ELSE IF StripLine(getprop.stdout) = <<>> THEN ModelDefault
    ELSE StripLine(getprop.stdout)

NoRec ==
    [resolution |-> "", fps |-> "", bitrate |-> 0, codec |-> "",
     device_model |-> <<>>, pc_ram |-> 0, screen_size |-> NoScreen]

\* generate_recommendation, with its three queries.
GenerateRecommendationOf(answers) ==
    LET pc == GetPcRamGb(answers.ram)
        screen_size == GetDeviceScreenSize(answers.wm)
        device_model == GetDeviceModel(answers.getprop)
        tier == GenerateRecommendation(pc, screen_size)
    IN  [resolution |-> tier.resolution, fps |-> tier.fps, bitrate |-> tier.bitrate,
         codec |-> tier.codec, device_model |-> device_model, pc_ram |-> pc,
         screen_size |-> screen_size]

\* Answers of psutil: not installed, an exception, or the RAM in 512 MiB.
RamAnswers ==
    {[status |-> st, units |-> 0] : st \in {"unavailable", "error"}}
    \cup {[status |-> "ok", units |-> u] : u \in {16, 30, 31, 32, 33, 64}}

ScreenSizes == {<<1080, 2400>>, <<2500, 1600>>, <<1600, 2500>>, <<2501, 1600>>, <<1880, 3008>>}

SizeLine(label, size) == [label |-> label, w |-> size[1], h |-> size[2]]

\* A line of "wm size" that holds no size.
OtherLine == [label |-> "other", w |-> 0, h |-> 0]

\* Answers of "wm size": the call fails, or it prints lines.
WmAnswers ==
    {[status |-> "error", lines |-> <<>>]}
    \cup {[status |-> "ok", lines |-> ls] :
            ls \in {<<>>, <<OtherLine>>}
                   \cup {<<SizeLine(l, sz)>> : l \in {"Physical size", "Override size"},
                                               sz \in ScreenSizes}
                   \cup {<<OtherLine, SizeLine("Override size", o), SizeLine("Physical size", ph)>> :
                            o \in {<<1080, 2400>>, <<1880, 3008>>}, ph \in ScreenSizes}
                   \cup {<<SizeLine("Physical size", ph), SizeLine("Override size", o)>> :
                            o \in {<<1080, 2400>>, <<1880, 3008>>}, ph \in ScreenSizes}}

\* Answers of "getprop ro.product.model": the call fails, or it prints text.
GetpropAnswers ==
    {[status |-> "error", stdout |-> <<>>]}
    \cup {[status |-> "ok", stdout |-> t] : t \in {<<>>, <<SP>>, <<"X1">>, <<SP, "X1", SP>>}}

Probes == [ram : RamAnswers, wm : WmAnswers, getprop : GetpropAnswers]

\* The answers of the first pass of the bounded runs: 8 GiB, and a device
\* without a usable answer.
QuietProbe ==
    [ram |-> [status |-> "ok", units |-> 16],
     wm |-> [status |-> "error", lines |-> <<>>],
     getprop |-> [status |-> "error", stdout |-> <<>>]]

(***************************************************************************)
(* The settings that are not stream parameters of the selector, and the    *)
(* settings file: json.dump and json.load of _save_config, _load_config.   *)
(***************************************************************************)
DefaultSettings ==
    [screen_off |-> FALSE, borderless |-> FALSE, print_fps |-> FALSE,
     window_position |-> "center", last_wireless_ip |-> "", show_tutorial |-> TRUE]

ConfigKeys ==
    {"resolution", "fps", "bitrate", "codec", "screen_off", "last_ip", "language",
     "show_tutorial"}

\* JSON text of a str, an int and a bool.
JsonStr(v) == [t |-> "string", s |-> v, n |-> 0]
JsonInt(v) == [t |-> "number", s |-> "", n |-> v]
JsonBool(v) == [t |-> IF v THEN "true" ELSE "false", s |-> "", n |-> 0]

\* The Python value json.load gives for a JSON value.
JsonValue(tok) ==
    CASE tok.t = "string" -> tok.s
      [] tok.t = "number" -> tok.n
      [] tok.t = "true" -> TRUE
      [] OTHER -> FALSE

EmptyDoc == [k \in {} |-> JsonStr("")]

MissingFile == [kind |-> "missing", doc |-> EmptyDoc]
CorruptFile == [kind |-> "corrupt", doc |-> EmptyDoc]

\* The keys of the dictionary _save_config writes.
SavedKeys == ConfigKeys

SaveConfig_LanguageOnly(p, st, lang) ==
    [kind |-> "object", doc |-> [k \in {"language"} |-> JsonStr(lang)]]

\* _save_config: the dictionary, dumped.
SaveConfig(p, st, lang) ==
    [kind |-> "object",
     doc |-> [k \in SavedKeys |->
                CASE k = "resolution" -> JsonStr(p.resolution)
                  [] k = "fps" -> JsonStr(p.fps)
                  [] k = "bitrate" -> JsonInt(p.bitrate)
                  [] k = "codec" -> JsonStr(p.codec)
                  [] k = "screen_off" -> JsonBool(st.screen_off)
                  [] k = "last_ip" -> JsonStr(st.last_wireless_ip)
                  [] k = "language" -> JsonStr(lang)
                  [] k = "show_tutorial" -> JsonBool(st.show_tutorial)]]

\* config[k] if k is a key of the loaded dictionary, else what the field holds.
Stored(file, k, held) ==
    IF k \in DOMAIN file.doc THEN JsonValue(file.doc[k]) ELSE held

\* _load_config, on the values _create_variables has set: the parameters,
\* the settings and the language afterwards.  A missing file and a file
\* json.load rejects leave them as they are.
LoadConfig(file, p, st, lang) ==
    IF file.kind # "object"
    THEN [params |-> p,
          settings |-> [st EXCEPT !.last_wireless_ip = "", !.show_tutorial = TRUE],
          current_lang |-> lang]
    ELSE [params |-> [resolution |-> Stored(file, "resolution", p.resolution),
                      fps |-> Stored(file, "fps", p.fps),
                      bitrate |-> Stored(file, "bitrate", p.bitrate),
                      codec |-> Stored(file, "codec", p.codec)],
          settings |-> [st EXCEPT !.screen_off = Stored(file, "screen_off", st.screen_off),
                                  !.last_wireless_ip = Stored(file, "last_ip", ""),
                                  !.show_tutorial = Stored(file, "show_tutorial", TRUE)],
          current_lang |-> Stored(file, "language", lang)]

\* No "adb connect" was run yet.
NoConnect == [ip |-> "", status |-> "none", stdout |-> <<>>]

\* A settings file that holds a language and nothing else.
LanguageFile(lang) ==
    [kind |-> "object", doc |-> [k \in {"language"} |-> JsonStr(lang)]]

(***************************************************************************)
(* State.                                                                  *)
(***************************************************************************)
VARIABLES
    \* device directory and selector (ScrcpyLauncher)
    current_lang,             \* self.current_lang
    available_devices,        \* self.available_devices
    device_serial_map,        \* self._device_serial_map
    current_display_names,    \* self._current_display_names
    dropdown_values,          \* values of self.device_dropdown
    dropdown_state,           \* state of self.device_dropdown
    selected_device,          \* self.selected_device
    pending_wireless_device,  \* self._pending_wireless_device
    start_button_state,       \* state of self.start_button
    params,                   \* param_resolution, param_fps, param_bitrate, param_codec
    pc_ram,                   \* RAM of the host, GiB
    lastLog,                  \* the entries the latest handler appended to the log view
    lastHandler,              \* the latest handler the control thread ran
    lastPass,                 \* the input of the latest enumeration pass
    scan_timers,              \* pending after(n, _scan_devices) timers
    \* debounce of hotplug refreshes (ScrcpyLauncher)
    afterQueue,               \* callbacks given to after(0, ...), in order
    refresh_scheduled,        \* self._refresh_scheduled
    refresh_timers,           \* pending after(1000, _do_scheduled_refresh) timers
    burst_lines,              \* refresh requests of the current burst
    burst_scans,              \* enumerations the debounce timer ran for the current burst
    \* hotplug watcher (DeviceMonitor)
    stop_event,               \* self._stop_event
    monitor_process,          \* self._process
    first_output,             \* self._first_output
    monPc,                    \* position of DeviceMonitor.run
    trackers,                 \* the "adb track-devices" subprocesses spawned so far
    \* session supervisor (ScrcpyLauncher)
    current_scrcpy_process,   \* self.current_scrcpy_process
    children,                 \* the mirroring children spawned so far, with their tasks
    window_state,             \* the host window: normal, withdrawn or destroyed
    setup_shown,              \* self.setup_frame is gridded
    show_log_on_start,        \* self.show_log_on_start
    silent_polls,             \* pending after(500, _monitor_silent_process) timers
    session_state,            \* Idle, Monitoring or Silent
    exit_runs,                \* runs of _exit_application
    destroyed_by,             \* the handler that destroyed the host window
    \* settings, settings file and recommendation (ScrcpyLauncher, AutoConfig)
    settings,                 \* screen_off_on_start, borderless_mode, print_fps,
                              \* window_position, last_wireless_ip, show_tutorial
    config_file,              \* the content of config.json
    probe,                    \* what psutil, "wm size" and "getprop" answer
    rec,                      \* the latest result of AutoConfig.generate_recommendation
    edits,                    \* changes the user has made to parameters and options
    lastConnect,              \* the address and the answer of the latest "adb connect"
    lang_scan                 \* the _scan_devices thread started by _on_language_changed

dirVars == <<current_lang, available_devices, device_serial_map, current_display_names,
             dropdown_values, dropdown_state, selected_device, pending_wireless_device,
             start_button_state, params, pc_ram, lastPass, scan_timers>>

logVars == <<lastLog, lastHandler>>

uiVars == <<dirVars, logVars>>

\* The control thread ran handler, which appended entries to the log view.
Logged(handler, entries) == lastHandler' = handler /\ lastLog' = entries

debounceVars == <<afterQueue, refresh_scheduled, refresh_timers, burst_lines, burst_scans>>

watcherVars == <<stop_event, monitor_process, first_output, monPc, trackers>>

sessionVars == <<current_scrcpy_process, children, window_state, setup_shown,
                 show_log_on_start, silent_polls, session_state, exit_runs, destroyed_by>>

toolVars == <<settings, config_file, probe, rec, edits, lastConnect, lang_scan>>

vars == <<uiVars, debounceVars, watcherVars, sessionVars, toolVars>>

(***************************************************************************)
(* _update_device_dropdown and _apply_auto_config, as the new values of    *)
(* the fields they write.                                                  *)
(***************************************************************************)
\* The first label, in insertion order, that the map sends to the pending serial.
PendingIndex(display_names, map, pending) ==
    LET hits == {i \in 1..Len(display_names) :
                    display_names[i] \in DOMAIN map /\ map[display_names[i]] = pending}
    IN  IF pending = None \/ hits = {} THEN 0
        ELSE CHOOSE i \in hits : \A j \in hits : i <= j

StartStateNoDevice_Normal == "normal"

\* self.start_button.configure(state="disabled") of the empty branch
StartStateNoDevice == "disabled"

UpdateDeviceDropdown(display_names, map, selected, pending, lang, ram, oldParams) ==
    IF display_names # <<>>
    THEN LET hit == PendingIndex(display_names, map, pending)
             inList == \E i \in 1..Len(display_names) : display_names[i] = selected
             sel == IF hit # 0 THEN display_names[hit]
                    ELSE IF inList THEN selected ELSE display_names[1]
             hasSerial == sel \in DOMAIN map
         IN  [current_display_names |-> display_names,
              dropdown_values |-> display_names,
              dropdown_state |-> "readonly",
              selected_device |-> sel,
              pending_wireless_device |-> IF hit # 0 THEN None ELSE pending,
              start_button_state |-> "normal",
              params |-> IF hasSerial
                         THEN GenerateRecommendation(ram, DeviceScreen(map[sel]))
                         ELSE oldParams,
              log |-> (IF hit # 0 THEN <<"log_auto_select">> ELSE <<>>)
                      \o <<"log_found_devices">>
                      \o (IF hasSerial THEN <<"autoconfig_device", "autoconfig_recommend">>
                          ELSE <<>>)]
    ELSE [current_display_names |-> display_names,
          dropdown_values |-> <<Text(Locale("no_device", lang))>>,
          dropdown_state |-> "disabled",
          selected_device |-> Text(Locale("no_device", lang)),
          pending_wireless_device |-> pending,
          start_button_state |-> StartStateNoDevice,
          params |-> oldParams,
          log |-> <<"log_no_device">>]

(***************************************************************************)
(* _scan_devices.  An input of one pass: how the "adb devices" call ends,  *)
(* the entries it prints and what the getprop queries of each ready device *)
(* end in.                                                                 *)
(***************************************************************************)
Entries == [serial : Serials, status : Statuses]

EntryLists ==
    UNION {{l \in [1..n -> Entries] : \A i, j \in 1..n : i # j => l[i].serial # l[j].serial} :
           n \in 0..MaxDevices}

Pads == {<<>>, <<SP>>}

RunOutcomes == {"ok", "notfound", "timeout", "error"}

ReadySet(entries) == {entries[i].serial : i \in {j \in 1..Len(entries) : entries[j].status = "device"}}

OutcomeChoices(entries) ==
    {q \in [Serials -> QueryOutcomes] : \A x \in Serials \ ReadySet(entries) : q[x] = "error"}

NoOutcomes == [x \in Serials |-> "error"]

FailedInputs ==
    {[run |-> r, entries |-> <<>>, pad |-> <<>>, outcomes |-> NoOutcomes] :
        r \in RunOutcomes \ {"ok"}}

\* No thread of _on_language_changed is running.  A running one is at pc:
\* "run" before subprocess.run returns, "reset" before the map is emptied,
\* "names" inside the loop over device_serials, "publish" after the loop.
NoInput == [run |-> "none", entries |-> <<>>, pad |-> <<>>, outcomes |-> NoOutcomes]

NoLangScan == [pc |-> "idle", input |-> NoInput, device_serials |-> <<>>,
               display_names |-> <<>>]

\* Every input of a pass, within MaxDevices.
ScanInputs ==
    UNION {{[run |-> "ok", entries |-> l, pad |-> pad, outcomes |-> q] :
               pad \in Pads, q \in OutcomeChoices(l)} : l \in EntryLists}
    \cup FailedInputs

\* The passes of the specifications that are not about the parse.
FewScanInputs ==
    {[run |-> "ok", entries |-> l, pad |-> <<>>, outcomes |-> NoOutcomes] :
        l \in {<<>>, <<[serial |-> "usb1", status |-> "device"]>>}}
    \cup {[run |-> "notfound", entries |-> <<>>, pad |-> <<>>, outcomes |-> NoOutcomes]}

ScanErrorLog_Generic(run) == "log_scan_failed"

\* The log entry of each except clause of _scan_devices.
ScanErrorLog(run) ==
    CASE run = "notfound" -> "log_adb_not_found"
      [] run = "timeout" -> "log_adb_timeout"
      [] OTHER -> "log_scan_failed"

\* The ghost record of a pass.
PassOf(input, lang) == [run |-> input.run, entries |-> input.entries,
                        outcomes |-> input.outcomes, lang |-> lang]

\* _scan_devices on one input; prefix holds what the calling handler logged
\* before the call.
ScanDevices(input, handler, prefix) ==
    LET ok == input.run = "ok"
    IN
    \E device_serials \in {ParseDevices(FormatDevicesOutput(input.entries, input.pad))} :
    \E display_names \in {IF ok THEN DisplayNames(device_serials, input.outcomes, current_lang)
                           ELSE <<>>} :
    \E map \in {IF ok THEN BuildMap(display_names, device_serials, EmptyMap)
                 ELSE device_serial_map} :
    \E u \in {UpdateDeviceDropdown(display_names, map, selected_device,
                                    pending_wireless_device, current_lang, pc_ram, params)} :
        /\ device_serial_map' = map
        /\ available_devices' = IF ok THEN device_serials ELSE available_devices
        /\ current_display_names' = u.current_display_names
        /\ dropdown_values' = u.dropdown_values
        /\ dropdown_state' = u.dropdown_state
        /\ selected_device' = u.selected_device
        /\ pending_wireless_device' = u.pending_wireless_device
        /\ start_button_state' = u.start_button_state
        /\ params' = u.params
        /\ Logged(handler,
                  prefix
                  \o (IF ok THEN (IF device_serials # <<>> THEN <<"log_getting_info">>
                                  ELSE <<>>)
                      ELSE <<ScanErrorLog(input.run)>>)
                  \o u.log)
        /\ lastPass' = PassOf(input, current_lang)
        /\ UNCHANGED <<current_lang, pc_ram>>

(***************************************************************************)
(* The state after ScrcpyLauncher.__init__.                                *)
(***************************************************************************)
NoPass == [run |-> "none", entries |-> <<>>, outcomes |-> NoOutcomes, lang |-> "zh"]

InitUI(langs, rams) ==
    /\ current_lang \in langs
    /\ pc_ram \in rams
    /\ available_devices = <<>>
    /\ device_serial_map = EmptyMap
    /\ current_display_names = <<>>
    /\ dropdown_values = <<Text("Scanning...")>>
    /\ dropdown_state = "readonly"
    /\ selected_device = Text(Locale("scanning", current_lang))
    /\ pending_wireless_device = None
    /\ start_button_state = "normal"
    /\ params = DefaultParams
    /\ lastLog = <<>>
    /\ lastHandler = "__init__"
    /\ lastPass = NoPass
    /\ scan_timers = 1

InitDebounce ==
    /\ afterQueue = <<>>
    /\ refresh_scheduled = NoTimer
    /\ refresh_timers = {}
    /\ burst_lines = 0
    /\ burst_scans = 0

InitWatcher ==
    /\ stop_event = FALSE
    /\ monitor_process = NoProcess
    /\ first_output = TRUE
    /\ monPc = "loop"
    /\ trackers = <<>>

InitSession ==
    /\ current_scrcpy_process = NoProcess
    /\ children = <<>>
    /\ window_state = "normal"
    /\ setup_shown = TRUE
    /\ show_log_on_start = TRUE
    /\ silent_polls = 0
    /\ session_state = "Idle"
    /\ exit_runs = 0
    /\ destroyed_by = None

\* The settings after _create_variables and _load_config of a file that
\* holds the language; no recommendation was computed yet.
InitTools ==
    /\ settings = DefaultSettings
    /\ config_file = LanguageFile(current_lang)
    /\ probe = QuietProbe
    /\ rec = NoRec
    /\ edits = 0
    /\ lastConnect = NoConnect
    /\ lang_scan = NoLangScan

\* The control thread runs handlers while the window exists.
Alive == window_state \in {"normal", "withdrawn"}

\* A widget of the setup view can be clicked.
SetupClickable == window_state = "normal" /\ setup_shown

(***************************************************************************)
(* Handlers of the device directory.                                       *)
(***************************************************************************)
\* after(100, self._scan_devices) of __init__, after(500, self._scan_devices)
ScanTimerFires(inputs) ==
    /\ Alive
    /\ scan_timers > 0
    /\ scan_timers' = scan_timers - 1
    /\ \E input \in inputs : ScanDevices(input, "_scan_devices", <<>>)
    /\ UNCHANGED <<debounceVars, watcherVars, sessionVars>>
    /\ UNCHANGED toolVars

OnRefreshClicked(inputs) ==
    /\ SetupClickable
    /\ \E input \in inputs : ScanDevices(input, "_on_refresh_clicked", <<"info_refreshing">>)
    /\ UNCHANGED <<scan_timers, debounceVars, watcherVars, sessionVars>>
    /\ UNCHANGED toolVars

\* The user picks an entry of the device selector.
SelectDevice ==
    /\ SetupClickable
    /\ dropdown_state = "readonly"
    /\ \E i \in 1..Len(dropdown_values) : selected_device' = dropdown_values[i]
    /\ Logged("select", <<>>)
    /\ UNCHANGED <<current_lang, available_devices, device_serial_map,
                   current_display_names, dropdown_values, dropdown_state,
                   pending_wireless_device, start_button_state, params, pc_ram,
                   lastPass, scan_timers>>
    /\ UNCHANGED <<debounceVars, watcherVars, sessionVars>>
    /\ UNCHANGED toolVars

(***************************************************************************)
(* Debounce: _schedule_refresh and _do_scheduled_refresh.                  *)
(***************************************************************************)
\* The id after() returns: one that names no pending timer.
NewTimerId(timers, scheduled) ==
    CHOOSE i \in 1..(Cardinality(timers) + 2) : i \notin timers /\ i # scheduled

CancelPending_Keep(timers, id) == timers

\* self.after_cancel(self._refresh_scheduled)
CancelPending(timers, id) == timers \ {id}

\* The control thread runs self._schedule_refresh, queued by the watcher.
ScheduleRefresh ==
    /\ Alive
    /\ afterQueue # <<>>
    /\ Head(afterQueue).f = "_schedule_refresh"
    /\ afterQueue' = Tail(afterQueue)
    /\ LET kept == IF refresh_scheduled # NoTimer
                    THEN CancelPending(refresh_timers, refresh_scheduled)
                    ELSE refresh_timers
            id == NewTimerId(kept, refresh_scheduled)
        IN  /\ refresh_timers' = kept \cup {id}
            /\ refresh_scheduled' = id
    /\ burst_lines' = IF burst_scans > 0 \/ burst_lines = 0 THEN 1 ELSE burst_lines + 1
    /\ burst_scans' = 0
    /\ Logged("_schedule_refresh", <<>>)
    /\ UNCHANGED <<dirVars, watcherVars, sessionVars>>
    /\ UNCHANGED toolVars

\* A pending debounce timer fires: _do_scheduled_refresh.
DoScheduledRefresh(inputs) ==
    /\ Alive
    /\ \E id \in refresh_timers : refresh_timers' = refresh_timers \ {id}
    /\ refresh_scheduled' = NoTimer
    /\ burst_scans' = burst_scans + 1
    /\ \E input \in inputs : ScanDevices(input, "_do_scheduled_refresh", <<"info_auto_refresh">>)
    /\ UNCHANGED <<afterQueue, burst_lines, scan_timers, watcherVars, sessionVars>>
    /\ UNCHANGED toolVars

(***************************************************************************)
(* The hotplug watcher: DeviceMonitor.run, split at its blocking calls,    *)
(* the tracking subprocesses, and DeviceMonitor.stop.                      *)
(***************************************************************************)
NewTracker == [state |-> "running", pending |-> 0, written |-> 0, read |-> 0, requests |-> 0]

\* while not self._stop_event.is_set():
MonLoop ==
    /\ monPc = "loop"
    /\ monPc' = IF stop_event THEN "done" ELSE "spawn"
    /\ UNCHANGED <<stop_event, monitor_process, first_output, trackers>>
    /\ UNCHANGED <<uiVars, debounceVars, sessionVars>>
    /\ UNCHANGED toolVars

FirstOutputAfterSpawn_Stale == first_output

\* self._first_output = True, after each Popen
FirstOutputAfterSpawn == TRUE

\* subprocess.Popen([adb_path, "track-devices"], ...) succeeds.
MonSpawn ==
    /\ monPc = "spawn"
    /\ Len(trackers) < MaxTrackers
    /\ trackers' = Append(trackers, NewTracker)
    /\ monitor_process' = Len(trackers) + 1
    /\ first_output' = FirstOutputAfterSpawn
    /\ monPc' = "inner"
    /\ UNCHANGED stop_event
    /\ UNCHANGED <<uiVars, debounceVars, sessionVars>>
    /\ UNCHANGED toolVars

\* Popen raises: FileNotFoundError sleeps 5, any other error sleeps 2.
MonSpawnFails ==
    /\ monPc = "spawn"
    /\ \E pc \in {"sleep5", "sleep2"} : monPc' = pc
    /\ UNCHANGED <<stop_event, monitor_process, first_output, trackers>>
    /\ UNCHANGED <<uiVars, debounceVars, sessionVars>>
    /\ UNCHANGED toolVars

MonSleepDone ==
    /\ monPc \in {"sleep5", "sleep2"}
    /\ monPc' = "finally"
    /\ UNCHANGED <<stop_event, monitor_process, first_output, trackers>>
    /\ UNCHANGED <<uiVars, debounceVars, sessionVars>>
    /\ UNCHANGED toolVars

\* while not self._stop_event.is_set(): of the read loop
MonInner ==
    /\ monPc = "inner"
    /\ monPc' = IF stop_event THEN "finally" ELSE "poll"
    /\ UNCHANGED <<stop_event, monitor_process, first_output, trackers>>
    /\ UNCHANGED <<uiVars, debounceVars, sessionVars>>
    /\ UNCHANGED toolVars

\* if self._process.poll() is not None: break
MonPoll ==
    /\ monPc = "poll"
    /\ monPc' = IF trackers[monitor_process].state # "running" THEN "finally" ELSE "read"
    /\ UNCHANGED <<stop_event, monitor_process, first_output, trackers>>
    /\ UNCHANGED <<uiVars, debounceVars, sessionVars>>
    /\ UNCHANGED toolVars

\* readline() returns a line: the first one of the subprocess is skipped,
\* every other one calls self.app.after(0, self.app._schedule_refresh),
\* which raises once the window is destroyed.
MonReadLine ==
    /\ monPc = "read"
    /\ trackers[monitor_process].pending > 0
    /\ LET t == trackers[monitor_process]
            request == ~first_output
        IN  /\ trackers' = [trackers EXCEPT ![monitor_process] =
                                [t EXCEPT !.pending = t.pending - 1,
                                          !.read = t.read + 1,
                                          !.requests = IF request THEN t.requests + 1
                                                       ELSE t.requests]]
            /\ first_output' = FALSE
            /\ afterQueue' = IF request /\ Alive
                             THEN Append(afterQueue, [f |-> "_schedule_refresh", arg |-> None])
                             ELSE afterQueue
            /\ monPc' = IF request /\ ~Alive THEN "sleep2" ELSE "inner"
    /\ UNCHANGED <<stop_event, monitor_process>>
    /\ UNCHANGED <<uiVars, refresh_scheduled, refresh_timers, burst_lines, burst_scans,
                   sessionVars>>
    /\ UNCHANGED toolVars

\* readline() returns "" at the end of the stream.
MonReadEof ==
    /\ monPc = "read"
    /\ trackers[monitor_process].pending = 0
    /\ trackers[monitor_process].state # "running"
    /\ monPc' = "inner"
    /\ UNCHANGED <<stop_event, monitor_process, first_output, trackers>>
    /\ UNCHANGED <<uiVars, debounceVars, sessionVars>>
    /\ UNCHANGED toolVars

\* process.terminate()
Terminate(ts, p) ==
    IF p # NoProcess /\ ts[p].state = "running"
    THEN [ts EXCEPT ![p] = [@ EXCEPT !.state = "terminated"]]
    ELSE ts

\* finally: terminate the subprocess, self._process = None
MonFinally ==
    /\ monPc = "finally"
    /\ trackers' = Terminate(trackers, monitor_process)
    /\ monitor_process' = NoProcess
    /\ monPc' = "loop"
    /\ UNCHANGED <<stop_event, first_output>>
    /\ UNCHANGED <<uiVars, debounceVars, sessionVars>>
    /\ UNCHANGED toolVars

\* The tracking subprocess prints a line.
TrackerWrites ==
    /\ \E p \in 1..Len(trackers) :
          /\ trackers[p].state = "running"
          /\ trackers[p].written < MaxTrackLines
          /\ trackers' = [trackers EXCEPT ![p] = [@ EXCEPT !.pending = @ + 1,
                                                           !.written = @ + 1]]
    /\ UNCHANGED <<stop_event, monitor_process, first_output, monPc>>
    /\ UNCHANGED <<uiVars, debounceVars, sessionVars>>
    /\ UNCHANGED toolVars

\* The tracking subprocess ends by itself.
TrackerExits ==
    /\ \E p \in 1..Len(trackers) :
          /\ trackers[p].state = "running"
          /\ trackers' = [trackers EXCEPT ![p] = [@ EXCEPT !.state = "exited"]]
    /\ UNCHANGED <<stop_event, monitor_process, first_output, monPc>>
    /\ UNCHANGED <<uiVars, debounceVars, sessionVars>>
    /\ UNCHANGED toolVars

\* DeviceMonitor.stop, as the new values of the fields it writes.
StopMonitor ==
    /\ stop_event' = TRUE
    /\ trackers' = Terminate(trackers, monitor_process)
    /\ UNCHANGED <<monitor_process, first_output, monPc>>

\* _on_window_close: stop the watcher, save the settings, destroy the window.
OnWindowClose ==
    /\ window_state = "normal"
    /\ StopMonitor
    /\ window_state' = "destroyed"
    /\ destroyed_by' = "_on_window_close"
    /\ Logged("_on_window_close", <<>>)
    /\ config_file' = SaveConfig(params, settings, current_lang)
    /\ UNCHANGED <<current_scrcpy_process, children, setup_shown, show_log_on_start,
                   silent_polls, session_state, exit_runs>>
    /\ UNCHANGED <<dirVars, debounceVars, settings, probe, lastConnect, rec, edits, lang_scan>>

(***************************************************************************)
(* The session supervisor: _on_start_clicked, the poll of Silent mode, the *)
(* reader and the watch thread of Monitoring mode, _exit_application.      *)
(***************************************************************************)
\* The texts _on_start_clicked takes for "no device selected".
Placeholders ==
    {Text(""), Text("Scanning...")}
    \cup {Text(Locale(k, l)) : k \in {"scanning", "no_device"}, l \in Langs}

\* device_serial_map.get(display_name, display_name)
DeviceArgument(map, display_name) ==
    IF display_name \in DOMAIN map THEN SerialText(map[display_name]) ELSE display_name

\* What _on_start_clicked logs before it spawns.
CommandLog == <<"separator", "device", "params", "command", "separator">>

ExitCodes == {0, 1}

(***************************************************************************)
(* The argument list of _on_start_clicked.  The texts of the parameters    *)
(* are taken apart character by character, as the regular expression,      *)
(* str.replace and the in test of the code do.                             *)
(***************************************************************************)
\* The characters of the texts a parameter can hold: the values of the
\* option menus and the values of a settings file written by hand.
Chars(text) ==
    CASE text = "Native" -> <<"N", "a", "t", "i", "v", "e">>
      [] text = "2K (2560)" -> <<"2", "K", " ", "(", "2", "5", "6", "0", ")">>
      [] text = "1080P (1920)" -> <<"1", "0", "8", "0", "P", " ", "(", "1", "9", "2", "0", ")">>
      [] text = "720P (1280)" -> <<"7", "2", "0", "P", " ", "(", "1", "2", "8", "0", ")">>
      [] text = "4K (3840)" -> <<"4", "K", " ", "(", "3", "8", "4", "0", ")">>
      [] text = "120 fps" -> <<"1", "2", "0", " ", "f", "p", "s">>
      [] text = "90 fps" -> <<"9", "0", " ", "f", "p", "s">>
      [] text = "60 fps" -> <<"6", "0", " ", "f", "p", "s">>
      [] text = "30 fps" -> <<"3", "0", " ", "f", "p", "s">>
      [] text = "144 fps" -> <<"1", "4", "4", " ", "f", "p", "s">>
      [] text = "H.264 (Low Latency)" ->
            <<"H", ".", "2", "6", "4", " ", "(", "L", "o", "w", " ",
              "L", "a", "t", "e", "n", "c", "y", ")">>
      [] text = "H.265 (High Quality)" ->
            <<"H", ".", "2", "6", "5", " ", "(", "H", "i", "g", "h", " ",
              "Q", "u", "a", "l", "i", "t", "y", ")">>
      [] text = "AV1" -> <<"A", "V", "1">>

DigitChars == <<"0", "1", "2", "3", "4", "5", "6", "7", "8", "9">>

IsDigit(c) == \E i \in 1..10 : DigitChars[i] = c

\* str(n) of a natural number
RECURSIVE Str(_)
Str(n) ==
    IF n < 10 THEN <<DigitChars[n + 1]>>
    ELSE Str(n \div 10) \o <<DigitChars[(n % 10) + 1]>>

\* cs[i..] starts with pat
StartsAt(cs, i, pat) ==
    /\ i + Len(pat) - 1 <= Len(cs)
    /\ \A k \in 1..Len(pat) : cs[i + k - 1] = pat[k]

\* pat in cs
Contains(cs, pat) == \E i \in 1..Len(cs) : StartsAt(cs, i, pat)

\* cs.replace(pat, ""), pat not empty
RECURSIVE Remove(_, _)
Remove(cs, pat) ==
    IF cs = <<>> THEN <<>>
    ELSE IF StartsAt(cs, 1, pat) THEN Remove(SubSeq(cs, Len(pat) + 1, Len(cs)), pat)
    ELSE <<Head(cs)>> \o Remove(Tail(cs), pat)

\* The end of the longest run of digits that starts at cs[i].
RECURSIVE DigitsEnd(_, _)
DigitsEnd(cs, i) ==
    IF i <= Len(cs) /\ IsDigit(cs[i]) THEN DigitsEnd(cs, i + 1) ELSE i

NoMatch == <<>>

\* re.search(r'\((\d+)\)', resolution): group 1 of the leftmost match.
RECURSIVE SearchParenDigits(_, _)
SearchParenDigits(cs, i) ==
    IF i > Len(cs) THEN NoMatch
    ELSE LET j == DigitsEnd(cs, i + 1)
         IN  IF cs[i] = "(" /\ j > i + 1 /\ j <= Len(cs) /\ cs[j] = ")"
             THEN SubSeq(cs, i + 1, j - 1)
             ELSE SearchParenDigits(cs, i + 1)

\* One argument: a literal of the code followed by a formatted value.
Arg(text, value) == [text |-> text, value |-> value]

\* -m <n>, unless the resolution is "Native" or holds no (<digits>)
ResolutionArgs(resolution) ==
    IF resolution = "Native" THEN <<>>
    ELSE LET res_match == SearchParenDigits(Chars(resolution), 1)
         IN  IF res_match # NoMatch THEN <<Arg("-m", <<>>), Arg("", res_match)>> ELSE <<>>

\* --max-fps=<fps without " fps">
FpsArgs(fps) == <<Arg("--max-fps=", Remove(Chars(fps), <<" ", "f", "p", "s">>))>>

CodecValue_H264(codec) == <<"h", "2", "6", "4">>

\* "h264" if "H.264" in codec else "h265"
CodecValue(codec) ==
    IF Contains(Chars(codec), <<"H", ".", "2", "6", "4">>)
    THEN <<"h", "2", "6", "4">>
    ELSE <<"h", "2", "6", "5">>

CodecArgs(codec) == <<Arg("--video-codec=", CodecValue(codec))>>

\* -b <bitrate>M
BitrateArgs(bitrate) == <<Arg("-b", <<>>), Arg("", Str(bitrate) \o <<"M">>)>>

FlagArgs(flag, on) == IF on THEN <<Arg(flag, <<>>)>> ELSE <<>>

\* winfo_screenwidth() of the displays the program is run on
ScreenWidths == {1366, 1920}

\* --window-x, --window-y; "center" adds nothing
PositionArgs(position, screen_width) ==
    CASE position = "top-left" ->
            <<Arg("--window-x", <<>>), Arg("", Str(50)), Arg("--window-y", <<>>), Arg("", Str(50))>>
      [] position = "top-right" ->
            <<Arg("--window-x", <<>>), Arg("", Str(screen_width - 500)),
              Arg("--window-y", <<>>), Arg("", Str(50))>>
      [] OTHER -> <<>>

\* The command of _on_start_clicked after [self.scrcpy_path, "-s", device].
BuildCommand(p, st, screen_width) ==
    ResolutionArgs(p.resolution)
    \o FpsArgs(p.fps)
    \o CodecArgs(p.codec)
    \o BitrateArgs(p.bitrate)
    \o FlagArgs("--turn-screen-off", st.screen_off)
    \o FlagArgs("--window-borderless", st.borderless)
    \o FlagArgs("--print-fps", st.print_fps)
    \o PositionArgs(st.window_position, screen_width)
    \o <<Arg("--shortcut-mod=lctrl", <<>>)>>

NewChild(mode, device, command) ==
    [state |-> "running", code |-> 0, mode |-> mode, device |-> device,
     command |-> command,
     unread |-> 0, written |-> 0,
     reader |-> IF mode = "Monitoring" THEN "reading" ELSE "none",
     watch |-> IF mode = "Monitoring" THEN "polling" ELSE "none"]

\* The safety check at the head of _on_start_clicked fails.
OnStartNoDevice ==
    /\ SetupClickable
    /\ start_button_state = "normal"
    /\ selected_device \in Placeholders
    /\ Logged("_on_start_clicked", <<"log_no_valid_device">>)
    /\ UNCHANGED <<dirVars, debounceVars, watcherVars, sessionVars>>
    /\ UNCHANGED toolVars

SpawnFailureLog_Twice(e) == <<e, e>>

\* The except clauses of _on_start_clicked: one entry for the failure.
SpawnFailureLog(e) == <<e>>

SpawnErrors == {"log_scrcpy_not_found", "log_launch_failed"}

\* subprocess.Popen raises: FileNotFoundError, or any other error.
OnStartSpawnFails ==
    /\ SetupClickable
    /\ start_button_state = "normal"
    /\ selected_device \notin Placeholders
    /\ \E e \in SpawnErrors :
          Logged("_on_start_clicked", CommandLog \o SpawnFailureLog(e))
    /\ UNCHANGED <<dirVars, debounceVars, watcherVars, sessionVars>>
    /\ UNCHANGED toolVars

\* Popen succeeds with the show-log flag on: _enter_monitoring_mode, then
\* the reader and the watch thread are started.
OnStartMonitoring ==
    /\ SetupClickable
    /\ start_button_state = "normal"
    /\ selected_device \notin Placeholders
    /\ show_log_on_start
    /\ Len(children) < MaxSessions
    /\ \E screen_width \in ScreenWidths :
          children' = Append(children,
                             NewChild("Monitoring",
                                      DeviceArgument(device_serial_map, selected_device),
                                      BuildCommand(params, settings, screen_width)))
    /\ current_scrcpy_process' = Len(children) + 1
    /\ setup_shown' = FALSE
    /\ session_state' = "Monitoring"
    /\ Logged("_on_start_clicked",
              CommandLog \o <<"log_scrcpy_launched", "info_monitoring_mode">>)
    /\ UNCHANGED <<window_state, show_log_on_start, silent_polls, exit_runs, destroyed_by>>
    /\ UNCHANGED <<dirVars, debounceVars, watcherVars>>
    /\ UNCHANGED toolVars

WindowAfterWithdraw_Shown == "normal"

\* self.withdraw()
WindowAfterWithdraw == "withdrawn"

WindowAfterDeiconify_Destroyed == "destroyed"

WindowAfterDeiconify_Hidden == "withdrawn"

\* self.deiconify(); self.lift(); self.focus_force()
WindowAfterDeiconify == "normal"

HandleAfterSilentExit_Kept == current_scrcpy_process

\* self.current_scrcpy_process = None, once the poll sees the child gone
HandleAfterSilentExit == NoProcess

\* Popen succeeds with the show-log flag off: the window is withdrawn and
\* _monitor_silent_process is called at once; the child may be gone already.
OnStartSilent ==
    /\ SetupClickable
    /\ start_button_state = "normal"
    /\ selected_device \notin Placeholders
    /\ ~show_log_on_start
    /\ Len(children) < MaxSessions
    /\ \E gone \in BOOLEAN, code \in ExitCodes, screen_width \in ScreenWidths :
          LET c == NewChild("Silent", DeviceArgument(device_serial_map, selected_device),
                            BuildCommand(params, settings, screen_width))
          IN  IF gone
              THEN /\ children' = Append(children, [c EXCEPT !.state = "exited", !.code = code])
                   /\ current_scrcpy_process' = HandleAfterSilentExit
                   /\ window_state' = WindowAfterDeiconify
                   /\ session_state' = "Idle"
                   /\ silent_polls' = silent_polls
                   /\ Logged("_on_start_clicked",
                             CommandLog \o <<"log_scrcpy_launched", "info_pure_mode",
                                             "info_window_restored">>)
              ELSE /\ code = 0
                   /\ children' = Append(children, c)
                   /\ current_scrcpy_process' = Len(children) + 1
                   /\ window_state' = WindowAfterWithdraw
                   /\ session_state' = "Silent"
                   /\ silent_polls' = silent_polls + 1
                   /\ Logged("_on_start_clicked",
                             CommandLog \o <<"log_scrcpy_launched", "info_pure_mode">>)
    /\ start_button_state' = "normal"
    /\ UNCHANGED <<setup_shown, show_log_on_start, exit_runs, destroyed_by>>
    /\ UNCHANGED <<current_lang, available_devices, device_serial_map,
                   current_display_names, dropdown_values, dropdown_state,
                   selected_device, pending_wireless_device, params, pc_ram, lastPass,
                   scan_timers>>
    /\ UNCHANGED <<debounceVars, watcherVars>>
    /\ UNCHANGED toolVars

PollsAfterRunning_None(polls) == polls - 1

\* self.after(500, self._monitor_silent_process), the child still running
PollsAfterRunning(polls) == polls

\* The timer of the poll fires: _monitor_silent_process.
MonitorSilentProcess ==
    /\ Alive
    /\ silent_polls > 0
    /\ IF current_scrcpy_process = NoProcess
       THEN /\ silent_polls' = silent_polls - 1
            /\ Logged("_monitor_silent_process", <<>>)
            /\ UNCHANGED <<current_scrcpy_process, window_state, session_state,
                           start_button_state>>
       ELSE IF children[current_scrcpy_process].state # "running"
       THEN /\ silent_polls' = silent_polls - 1
            /\ current_scrcpy_process' = HandleAfterSilentExit
            /\ window_state' = WindowAfterDeiconify
            /\ session_state' = "Idle"
            /\ start_button_state' = "normal"
            /\ Logged("_monitor_silent_process", <<"info_window_restored">>)
       ELSE /\ silent_polls' = PollsAfterRunning(silent_polls)
            /\ Logged("_monitor_silent_process", <<>>)
            /\ UNCHANGED <<current_scrcpy_process, window_state, session_state,
                           start_button_state>>
    /\ UNCHANGED <<children, setup_shown, show_log_on_start, exit_runs, destroyed_by>>
    /\ UNCHANGED <<current_lang, available_devices, device_serial_map,
                   current_display_names, dropdown_values, dropdown_state,
                   selected_device, pending_wireless_device, params, pc_ram, lastPass,
                   scan_timers>>
    /\ UNCHANGED <<debounceVars, watcherVars>>
    /\ UNCHANGED toolVars

\* The user toggles the show-log checkbox.
ToggleShowLog ==
    /\ SetupClickable
    /\ show_log_on_start' = ~show_log_on_start
    /\ Logged("show_log_checkbox", <<>>)
    /\ UNCHANGED <<current_scrcpy_process, children, window_state, setup_shown,
                   silent_polls, session_state, exit_runs, destroyed_by>>
    /\ UNCHANGED <<dirVars, debounceVars, watcherVars>>
    /\ UNCHANGED toolVars

\* The mirroring child prints a line.
ChildWrites ==
    /\ \E c \in 1..Len(children) :
          /\ children[c].state = "running"
          /\ children[c].written < MaxChildLines
          /\ children' = [children EXCEPT ![c] = [@ EXCEPT !.unread = @ + 1,
                                                           !.written = @ + 1]]
    /\ UNCHANGED <<current_scrcpy_process, window_state, setup_shown, show_log_on_start,
                   silent_polls, session_state, exit_runs, destroyed_by>>
    /\ UNCHANGED <<uiVars, debounceVars, watcherVars>>
    /\ UNCHANGED toolVars

\* The mirroring child ends, by itself or because its window was closed.
ChildExits ==
    /\ \E c \in 1..Len(children), code \in ExitCodes :
          /\ children[c].state = "running"
          /\ children' = [children EXCEPT ![c] = [@ EXCEPT !.state = "exited",
                                                           !.code = code]]
    /\ UNCHANGED <<current_scrcpy_process, window_state, setup_shown, show_log_on_start,
                   silent_polls, session_state, exit_runs, destroyed_by>>
    /\ UNCHANGED <<uiVars, debounceVars, watcherVars>>
    /\ UNCHANGED toolVars

\* self.after(0, f) from a background thread: queued while the window
\* exists; it raises once the window is destroyed.
Queued(queue, f, arg) == IF Alive THEN Append(queue, [f |-> f, arg |-> arg]) ELSE queue

\* _read_process_output: for line in process.stdout, one line.
ReaderReadsLine ==
    /\ \E c \in 1..Len(children) :
          /\ children[c].reader = "reading"
          /\ children[c].unread > 0
          /\ children' = [children EXCEPT ![c] =
                              [@ EXCEPT !.unread = @ - 1,
                                        !.reader = IF Alive THEN "reading" ELSE "done"]]
          /\ afterQueue' = Queued(afterQueue, "_log", "scrcpy_line")
    /\ UNCHANGED <<current_scrcpy_process, window_state, setup_shown, show_log_on_start,
                   silent_polls, session_state, exit_runs, destroyed_by>>
    /\ UNCHANGED <<uiVars, refresh_scheduled, refresh_timers, burst_lines, burst_scans,
                   watcherVars>>
    /\ UNCHANGED toolVars

\* _read_process_output: the stream ends, process.wait() returns the exit
\* code and the exit entry is logged.
ReaderSeesExit ==
    /\ \E c \in 1..Len(children) :
          /\ children[c].reader = "reading"
          /\ children[c].unread = 0
          /\ children[c].state # "running"
          /\ children' = [children EXCEPT ![c] = [@ EXCEPT !.reader = "done"]]
          /\ afterQueue' = Queued(afterQueue, "_log",
                                  IF children[c].code = 0 THEN "log_scrcpy_exited"
                                  ELSE "log_scrcpy_exit_code")
          /\ session_state' = IF current_scrcpy_process = c THEN "Idle" ELSE session_state
    /\ UNCHANGED <<current_scrcpy_process, window_state, setup_shown, show_log_on_start,
                   silent_polls, exit_runs, destroyed_by>>
    /\ UNCHANGED <<uiVars, refresh_scheduled, refresh_timers, burst_lines, burst_scans,
                   watcherVars>>
    /\ UNCHANGED toolVars

WatchSeesExit_Always(c) == TRUE

\* process.poll() is not None, in _monitor_scrcpy_process
WatchSeesExit(c) == children[c].state # "running"

\* _monitor_scrcpy_process: the poll finds the child gone and logs it; the
\* thread then sleeps 0.5.
WatchDetects ==
    /\ \E c \in 1..Len(children) :
          /\ children[c].watch = "polling"
          /\ WatchSeesExit(c)
          /\ children' = [children EXCEPT ![c] =
                              [@ EXCEPT !.watch = IF Alive THEN "sleeping" ELSE "done"]]
          /\ afterQueue' = Queued(afterQueue, "_log", "info_exit_detected")
          /\ session_state' = IF current_scrcpy_process = c THEN "Idle" ELSE session_state
    /\ UNCHANGED <<current_scrcpy_process, window_state, setup_shown, show_log_on_start,
                   silent_polls, exit_runs, destroyed_by>>
    /\ UNCHANGED <<uiVars, refresh_scheduled, refresh_timers, burst_lines, burst_scans,
                   watcherVars>>
    /\ UNCHANGED toolVars

\* _monitor_scrcpy_process: self.after(0, self._exit_application); break
WatchSchedulesExit ==
    /\ \E c \in 1..Len(children) :
          /\ children[c].watch = "sleeping"
          /\ children' = [children EXCEPT ![c] = [@ EXCEPT !.watch = "done"]]
          /\ afterQueue' = Queued(afterQueue, "_exit_application", None)
    /\ UNCHANGED <<current_scrcpy_process, window_state, setup_shown, show_log_on_start,
                   silent_polls, session_state, exit_runs, destroyed_by>>
    /\ UNCHANGED <<uiVars, refresh_scheduled, refresh_timers, burst_lines, burst_scans,
                   watcherVars>>
    /\ UNCHANGED toolVars

\* The control thread runs a queued lambda: self._log(message).
RunLogCallback ==
    /\ Alive
    /\ afterQueue # <<>>
    /\ Head(afterQueue).f = "_log"
    /\ afterQueue' = Tail(afterQueue)
    /\ Logged("_log", <<Head(afterQueue).arg>>)
    /\ UNCHANGED <<refresh_scheduled, refresh_timers, burst_lines, burst_scans>>
    /\ UNCHANGED <<dirVars, watcherVars, sessionVars>>
    /\ UNCHANGED toolVars

\* The control thread runs the queued _exit_application: save the settings,
\* stop the watcher, destroy the window.
ExitApplication ==
    /\ Alive
    /\ afterQueue # <<>>
    /\ Head(afterQueue).f = "_exit_application"
    /\ afterQueue' = Tail(afterQueue)
    /\ StopMonitor
    /\ window_state' = "destroyed"
    /\ destroyed_by' = "_exit_application"
    /\ exit_runs' = exit_runs + 1
    /\ Logged("_exit_application", <<>>)
    /\ UNCHANGED <<current_scrcpy_process, children, setup_shown, show_log_on_start,
                   silent_polls, session_state>>
    /\ config_file' = SaveConfig(params, settings, current_lang)
    /\ UNCHANGED <<refresh_scheduled, refresh_timers, burst_lines, burst_scans>>
    /\ UNCHANGED <<dirVars, settings, probe, lastConnect, rec, edits, lang_scan>>

(***************************************************************************)
(* _connect_wireless.  The output of "adb connect" is a sequence of        *)
(* tokens.                                                                 *)
(***************************************************************************)
ConnectAddresses == {"10.0.0.1", "10.0.0.2"}

\* f"{ip_address}:5555"
Target(ip_address) ==
    CASE ip_address = "10.0.0.1" -> "10.0.0.1:5555"
      [] ip_address = "10.0.0.2" -> "10.0.0.2:5555"

\* What "adb connect" prints, or how the call fails.
ConnectAnswers ==
    {[status |-> "ok", stdout |-> t] :
        t \in {<<"connected", SP, "to">>, <<"already", SP, "connected", SP, "to">>,
               <<"failed", SP, "to", SP, "connect">>,
               <<"cannot", SP, "connect", SP, "Connection", SP, "refused">>}}
    \cup {[status |-> st, stdout |-> <<>>] : st \in {"timeout", "error"}}

\* str.lower() of a token
Lower(token) ==
    CASE token = "Connected" -> "connected"
      [] token = "Connection" -> "connection"
      [] token = "Already" -> "already"
      [] OTHER -> token

ContainsConnected_Connect(output) ==
    \E i \in 1..Len(output) : Lower(output[i]) \in {"connected", "connect"}

\* "connected" in output.lower()
ContainsConnected(output) ==
    \E i \in 1..Len(output) : Lower(output[i]) = "connected"

ConnectWireless ==
    /\ SetupClickable
    /\ scan_timers < MaxScanTimers
    /\ \E ip_address \in ConnectAddresses, answer \in ConnectAnswers :
          /\ lastConnect' = [ip |-> ip_address, status |-> answer.status,
                             stdout |-> answer.stdout]
          /\ IF answer.status = "ok" /\ ContainsConnected(StripLine(answer.stdout))
             THEN /\ pending_wireless_device' = Target(ip_address)
                  /\ settings' = [settings EXCEPT !.last_wireless_ip = ip_address]
                  /\ config_file' = SaveConfig(params, settings', current_lang)
                  /\ scan_timers' = scan_timers + 1
                  /\ Logged("_connect_wireless", <<"adb_output", "log_connected">>)
             ELSE /\ Logged("_connect_wireless",
                            CASE answer.status = "ok" ->
                                   <<"adb_output", "log_connect_failed_output">>
                              [] answer.status = "timeout" -> <<"log_connect_timeout">>
                              [] OTHER -> <<"log_connect_exception">>)
                  /\ UNCHANGED <<pending_wireless_device, settings, config_file,
                                 scan_timers>>
    /\ UNCHANGED <<current_lang, available_devices, device_serial_map,
                   current_display_names, dropdown_values, dropdown_state,
                   selected_device, start_button_state, params, pc_ram, lastPass>>
    /\ UNCHANGED <<debounceVars, watcherVars, sessionVars>>
    /\ UNCHANGED <<probe, rec, edits, lang_scan>>

(***************************************************************************)
(* The values the parameter widgets and the option widgets offer.          *)
(***************************************************************************)
Resolutions == {"Native", "2K (2560)", "1080P (1920)", "720P (1280)"}
FpsChoices == {"120 fps", "90 fps", "60 fps", "30 fps"}
Codecs == {"H.264 (Low Latency)", "H.265 (High Quality)"}
\* The slider runs from 4 to 40; the ends and the default.
SliderBitrates == {4, 16, 40}
WindowPositions == {"center", "top-left", "top-right"}

\* The user sets one of the four stream parameters.
SetParameter ==
    /\ SetupClickable
    /\ edits < MaxEdits
    /\ \E p \in {[params EXCEPT !.resolution = v] : v \in Resolutions}
               \cup {[params EXCEPT !.fps = v] : v \in FpsChoices}
               \cup {[params EXCEPT !.bitrate = v] : v \in SliderBitrates}
               \cup {[params EXCEPT !.codec = v] : v \in Codecs} :
          params' = p
    /\ edits' = edits + 1
    /\ Logged("_on_param_changed", <<>>)
    /\ UNCHANGED <<current_lang, available_devices, device_serial_map,
                   current_display_names, dropdown_values, dropdown_state,
                   selected_device, pending_wireless_device, start_button_state, pc_ram,
                   lastPass, scan_timers>>
    /\ UNCHANGED <<debounceVars, watcherVars, sessionVars>>
    /\ UNCHANGED <<settings, config_file, probe, lastConnect, rec, lang_scan>>

\* The user toggles a checkbox or picks a window position.
SetOption ==
    /\ SetupClickable
    /\ edits < MaxEdits
    /\ \E st \in {[settings EXCEPT !.screen_off = ~@],
                   [settings EXCEPT !.borderless = ~@],
                   [settings EXCEPT !.print_fps = ~@]}
                \cup {[settings EXCEPT !.window_position = v] : v \in WindowPositions} :
          settings' = st
    /\ edits' = edits + 1
    /\ Logged("option_widgets", <<>>)
    /\ UNCHANGED <<dirVars, debounceVars, watcherVars, sessionVars>>
    /\ UNCHANGED <<config_file, probe, lastConnect, rec, lang_scan>>

(***************************************************************************)
(* A run of the program begins: ScrcpyLauncher.__init__, on the settings   *)
(* file the earlier run, or the user, has left.  _create_widgets looks the *)
(* language up in LOCALE; a language LOCALE does not hold raises KeyError  *)
(* out of __init__ and main.                                               *)
(***************************************************************************)
Startup ==
    /\ window_state \in {"unborn", "destroyed"}
    /\ LET loaded == LoadConfig(config_file, DefaultParams, DefaultSettings, "zh")
       IN  /\ params' = loaded.params
           /\ settings' = loaded.settings
           /\ current_lang' = loaded.current_lang
           /\ IF loaded.current_lang \in Langs
              THEN /\ window_state' = "normal"
                   /\ selected_device' = Text(Locale("scanning", loaded.current_lang))
                   /\ scan_timers' = 1
                   /\ monPc' = "loop"
              ELSE /\ window_state' = "crashed"
                   /\ selected_device' = Text("Scanning...")
                   /\ scan_timers' = 0
                   /\ monPc' = "done"
    /\ available_devices' = <<>>
    /\ device_serial_map' = EmptyMap
    /\ current_display_names' = <<>>
    /\ dropdown_values' = <<Text("Scanning...")>>
    /\ dropdown_state' = "readonly"
    /\ pending_wireless_device' = None
    /\ start_button_state' = "normal"
    /\ lastPass' = NoPass
    /\ Logged("__init__", <<>>)
    /\ afterQueue' = <<>>
    /\ refresh_scheduled' = NoTimer
    /\ refresh_timers' = {}
    /\ burst_lines' = 0
    /\ burst_scans' = 0
    /\ stop_event' = FALSE
    /\ monitor_process' = NoProcess
    /\ first_output' = TRUE
    /\ trackers' = <<>>
    /\ current_scrcpy_process' = NoProcess
    /\ children' = <<>>
    /\ setup_shown' = TRUE
    /\ show_log_on_start' = TRUE
    /\ silent_polls' = 0
    /\ session_state' = "Idle"
    /\ exit_runs' = 0
    /\ destroyed_by' = None
    /\ rec' = NoRec
    /\ lang_scan' = NoLangScan
    /\ UNCHANGED <<pc_ram, config_file, probe, lastConnect, edits>>

(***************************************************************************)
(* _apply_auto_config for the selected device.                             *)
(***************************************************************************)
ApplyAutoConfig ==
    /\ Alive
    /\ rec' = GenerateRecommendationOf(probe)
    /\ params' = [resolution |-> rec'.resolution, fps |-> rec'.fps,
                  bitrate |-> rec'.bitrate, codec |-> rec'.codec]
    /\ Logged("_apply_auto_config", <<"autoconfig_device", "autoconfig_recommend">>)
    /\ UNCHANGED <<current_lang, available_devices, device_serial_map,
                   current_display_names, dropdown_values, dropdown_state,
                   selected_device, pending_wireless_device, start_button_state, pc_ram,
                   lastPass, scan_timers>>
    /\ UNCHANGED <<debounceVars, watcherVars, sessionVars>>
    /\ UNCHANGED <<settings, config_file, probe, lastConnect, edits, lang_scan>>

(***************************************************************************)
(* The device directory alone: every input of a pass.                      *)
(***************************************************************************)
ScanInit == InitUI(Langs, {8, 16}) /\ InitDebounce /\ InitWatcher /\ InitSession /\ InitTools

ScanNext ==
    \/ ScanTimerFires(ScanInputs)
    \/ OnRefreshClicked(ScanInputs)
    \/ SelectDevice

ScanSpec == ScanInit /\ [][ScanNext]_vars

(***************************************************************************)
(* The hotplug watcher with the debounce timer and the passes it triggers. *)
(***************************************************************************)
WatcherInit == InitUI({"zh"}, {8}) /\ InitDebounce /\ InitWatcher /\ InitSession /\ InitTools

WatcherNext ==
    \/ MonLoop
    \/ MonSpawn
    \/ MonSpawnFails
    \/ MonSleepDone
    \/ MonInner
    \/ MonPoll
    \/ MonReadLine
    \/ MonReadEof
    \/ MonFinally
    \/ TrackerWrites
    \/ TrackerExits
    \/ ScheduleRefresh
    \/ DoScheduledRefresh(FewScanInputs)
    \/ OnWindowClose

WatcherSpec == WatcherInit /\ [][WatcherNext]_vars

\* The Tk main loop runs every queued callback and fires every due timer;
\* the watcher thread is scheduled.
WatcherFairSpec ==
    /\ WatcherSpec
    /\ WF_vars(ScheduleRefresh)
    /\ WF_vars(DoScheduledRefresh(FewScanInputs))
    /\ WF_vars(MonLoop \/ MonInner \/ MonPoll \/ MonReadLine \/ MonReadEof
                \/ MonSleepDone \/ MonFinally)

(***************************************************************************)
(* The watcher at shutdown.  stop() does not join the thread, and the      *)
(* thread is a daemon: once destroy() has ended mainloop(), main returns   *)
(* and the interpreter exits with the thread wherever it is.               *)
(***************************************************************************)
\* main returns after app.mainloop(); the daemon thread ends with it.
InterpreterExits ==
    /\ window_state = "destroyed"
    /\ monPc \notin {"done", "killed"}
    /\ monPc' = "killed"
    /\ UNCHANGED <<stop_event, monitor_process, first_output, trackers>>
    /\ UNCHANGED <<uiVars, debounceVars, sessionVars>>
    /\ UNCHANGED toolVars

ShutdownNext == WatcherNext \/ InterpreterExits

ShutdownSpec == WatcherInit /\ [][ShutdownNext]_vars

\* The watcher thread is scheduled for as long as the interpreter runs.
ShutdownFairSpec ==
    /\ ShutdownSpec
    /\ WF_vars(MonLoop \/ MonInner \/ MonPoll \/ MonReadLine \/ MonReadEof
                \/ MonSleepDone \/ MonFinally \/ MonSpawn \/ MonSpawnFails)

(***************************************************************************)
(* The device directory with two devices of one make on the network.       *)
(***************************************************************************)
TwinEntryLists ==
    {<<>>,
     <<[serial |-> "10.0.0.1:5555", status |-> "device"]>>,
     <<[serial |-> "10.0.0.1:5555", status |-> "device"],
       [serial |-> TwinSerial, status |-> "device"]>>,
     <<[serial |-> TwinSerial, status |-> "device"],
       [serial |-> "usb1", status |-> "device"]>>}

TwinScanInputs ==
    {[run |-> "ok", entries |-> l, pad |-> <<>>,
      outcomes |-> [x \in Serials \cup {TwinSerial} |-> q]] :
        l \in TwinEntryLists, q \in {"named", "timeout"}}

TwinInit == InitUI(Langs, {8}) /\ InitDebounce /\ InitWatcher /\ InitSession /\ InitTools

TwinNext ==
    \/ ScanTimerFires(TwinScanInputs)
    \/ OnRefreshClicked(TwinScanInputs)
    \/ SelectDevice

TwinSpec == TwinInit /\ [][TwinNext]_vars

(***************************************************************************)
(* _on_language_changed and the thread it starts.  The handler runs on the *)
(* control thread; the thread runs _scan_devices beside it, one statement  *)
(* group at a time.                                                        *)
(***************************************************************************)
\* The tail of _update_ui_text: a placeholder in the selector is translated.
TranslatePlaceholder(current_device, lang) ==
    IF current_device \in {Text("Scanning..."), Text(Locale("scanning", "zh")),
                           Text(Locale("scanning", "en"))}
    THEN Text(Locale("scanning", lang))
    ELSE IF current_device \in {Text("No device found"), Text(Locale("no_device", "zh")),
                                Text(Locale("no_device", "en"))}
         THEN Text(Locale("no_device", lang))
         ELSE current_device

\* "en" if choice == "English" else "zh"
LangOfChoice(choice) == IF choice = "English" THEN "en" ELSE "zh"

LanguageChoices == {"zh:menu", "English"}

OnLanguageChanged ==
    /\ SetupClickable
    /\ lang_scan.pc = "idle"
    /\ \E choice \in LanguageChoices :
          /\ current_lang' = LangOfChoice(choice)
          /\ selected_device' = TranslatePlaceholder(selected_device, LangOfChoice(choice))
    /\ lang_scan' = [NoLangScan EXCEPT !.pc = "run"]
    /\ Logged("_on_language_changed", <<>>)
    /\ UNCHANGED <<available_devices, device_serial_map, current_display_names,
                   dropdown_values, dropdown_state, pending_wireless_device,
                   start_button_state, params, pc_ram, lastPass, scan_timers>>
    /\ UNCHANGED <<debounceVars, watcherVars, sessionVars>>
    /\ UNCHANGED <<settings, config_file, probe, rec, edits, lastConnect>>

\* The thread's subprocess.run returns and its output is parsed; a failed
\* run ends the pass in an except clause, which logs and empties the
\* selector from the thread.
LangScanRuns(inputs) ==
    /\ Alive
    /\ lang_scan.pc = "run"
    /\ \E input \in inputs :
          IF input.run = "ok"
          THEN LET device_serials == ParseDevices(FormatDevicesOutput(input.entries,
                                                                      input.pad))
               IN  /\ lang_scan' = [lang_scan EXCEPT !.pc = "reset", !.input = input,
                                                     !.device_serials = device_serials]
                   /\ IF device_serials # <<>>
                      THEN Logged("thread:_scan_devices", <<"log_getting_info">>)
                      ELSE UNCHANGED logVars
                   /\ UNCHANGED dirVars
          ELSE LET u == UpdateDeviceDropdown(<<>>, device_serial_map, selected_device,
                                             pending_wireless_device, current_lang,
                                             pc_ram, params)
               IN  /\ lang_scan' = NoLangScan
                   /\ current_display_names' = u.current_display_names
                   /\ dropdown_values' = u.dropdown_values
                   /\ dropdown_state' = u.dropdown_state
                   /\ selected_device' = u.selected_device
                   /\ pending_wireless_device' = u.pending_wireless_device
                   /\ start_button_state' = u.start_button_state
                   /\ params' = u.params
                   /\ Logged("thread:_scan_devices", <<ScanErrorLog(input.run)>> \o u.log)
                   /\ lastPass' = PassOf(input, current_lang)
                   /\ UNCHANGED <<current_lang, available_devices, device_serial_map,
                                  pc_ram, scan_timers>>
    /\ UNCHANGED <<debounceVars, watcherVars, sessionVars>>
    /\ UNCHANGED <<settings, config_file, probe, rec, edits, lastConnect>>

\* self._device_serial_map = {}
LangScanResets ==
    /\ Alive
    /\ lang_scan.pc = "reset"
    /\ device_serial_map' = EmptyMap
    /\ lang_scan' = [lang_scan EXCEPT !.pc = IF lang_scan.device_serials = <<>>
                                             THEN "publish" ELSE "names"]
    /\ UNCHANGED <<current_lang, available_devices, current_display_names,
                   dropdown_values, dropdown_state, selected_device,
                   pending_wireless_device, start_button_state, params, pc_ram,
                   lastPass, scan_timers>>
    /\ UNCHANGED <<logVars, debounceVars, watcherVars, sessionVars>>
    /\ UNCHANGED <<settings, config_file, probe, rec, edits, lastConnect>>

\* One round of the loop: the label of the next serial is computed, appended
\* and entered into whatever map the attribute holds now.
LangScanNames ==
    /\ Alive
    /\ lang_scan.pc = "names"
    /\ LET serial == lang_scan.device_serials[Len(lang_scan.display_names) + 1]
           display_name == GetDeviceDisplayName(serial, lang_scan.input.outcomes[serial],
                                                current_lang)
           display_names == Append(lang_scan.display_names, display_name)
       IN  /\ device_serial_map' = MapPut(device_serial_map, display_name, serial)
           /\ lang_scan' = [lang_scan EXCEPT
                               !.display_names = display_names,
                               !.pc = IF Len(display_names) = Len(lang_scan.device_serials)
                                      THEN "publish" ELSE "names"]
    /\ UNCHANGED <<current_lang, available_devices, current_display_names,
                   dropdown_values, dropdown_state, selected_device,
                   pending_wireless_device, start_button_state, params, pc_ram,
                   lastPass, scan_timers>>
    /\ UNCHANGED <<logVars, debounceVars, watcherVars, sessionVars>>
    /\ UNCHANGED <<settings, config_file, probe, rec, edits, lastConnect>>

\* self.available_devices = device_serials and
\* self._update_device_dropdown(display_names), run by the thread.
LangScanPublishes ==
    /\ Alive
    /\ lang_scan.pc = "publish"
    /\ LET u == UpdateDeviceDropdown(lang_scan.display_names, device_serial_map,
                                     selected_device, pending_wireless_device,
                                     current_lang, pc_ram, params)
       IN  /\ available_devices' = lang_scan.device_serials
           /\ current_display_names' = u.current_display_names
           /\ dropdown_values' = u.dropdown_values
           /\ dropdown_state' = u.dropdown_state
           /\ selected_device' = u.selected_device
           /\ pending_wireless_device' = u.pending_wireless_device
           /\ start_button_state' = u.start_button_state
           /\ params' = u.params
           /\ Logged("thread:_scan_devices", u.log)
    /\ lastPass' = PassOf(lang_scan.input, current_lang)
    /\ lang_scan' = NoLangScan
    /\ UNCHANGED <<current_lang, device_serial_map, pc_ram, scan_timers>>
    /\ UNCHANGED <<debounceVars, watcherVars, sessionVars>>
    /\ UNCHANGED <<settings, config_file, probe, rec, edits, lastConnect>>

\* The passes of the specification of the language change: a device whose
\* label differs from its serial, or none, or a missing adb.
LangScanInputs ==
    {[run |-> "ok", entries |-> l, pad |-> <<>>, outcomes |-> [x \in Serials |-> "named"]] :
        l \in {<<>>, <<[serial |-> "usb1", status |-> "device"]>>,
               <<[serial |-> "10.0.0.1:5555", status |-> "device"]>>}}
    \cup {[run |-> "notfound", entries |-> <<>>, pad |-> <<>>, outcomes |-> NoOutcomes]}

LangInit == InitUI(Langs, {8}) /\ InitDebounce /\ InitWatcher /\ InitSession /\ InitTools

LangNext ==
    \/ ScanTimerFires(LangScanInputs)
    \/ OnRefreshClicked(LangScanInputs)
    \/ OnLanguageChanged
    \/ LangScanRuns(LangScanInputs)
    \/ LangScanResets
    \/ LangScanNames
    \/ LangScanPublishes
    \/ OnStartMonitoring

LangSpec == LangInit /\ [][LangNext]_vars

(***************************************************************************)
(* The recommendation engine over every answer of its three queries.       *)
(***************************************************************************)
RecommendInit ==
    /\ InitUI({"zh"}, {8})
    /\ InitDebounce
    /\ InitWatcher
    /\ InitSession
    /\ settings = DefaultSettings
    /\ config_file = LanguageFile(current_lang)
    /\ probe \in Probes
    /\ rec = NoRec
    /\ edits = 0
    /\ lastConnect = NoConnect
    /\ lang_scan = NoLangScan

RecommendNext == ApplyAutoConfig

RecommendSpec == RecommendInit /\ [][RecommendNext]_vars

(***************************************************************************)
(* Runs of the program over the settings file: a run starts on the file    *)
(* it finds, the user changes parameters and options, the close of the     *)
(* window saves, and the next run starts on the saved file.                *)
(***************************************************************************)
\* The keys of a saved document that are in keys.
Restrict(file, keys) ==
    [kind |-> "object", doc |-> [k \in (DOMAIN file.doc) \cap keys |-> file.doc[k]]]

\* Parameter values a settings file may hold: saved by a run, or not.
FileParams ==
    {DefaultParams,
     [resolution |-> "Native", fps |-> "120 fps", bitrate |-> 4,
      codec |-> "H.265 (High Quality)"],
     [resolution |-> "4K (3840)", fps |-> "144 fps", bitrate |-> 100, codec |-> "AV1"]}

FileLanguages == {"zh", "en", "fr"}

FileKeySets ==
    {ConfigKeys, {"language"}, {"resolution", "fps", "bitrate", "codec", "screen_off"}}

ConfigFiles ==
    {MissingFile, CorruptFile}
    \cup {Restrict(SaveConfig(p, [DefaultSettings EXCEPT !.screen_off = so], lang), keys) :
            p \in FileParams, so \in BOOLEAN, lang \in FileLanguages, keys \in FileKeySets}

ConfigInit ==
    /\ InitUI({"zh"}, {8})
    /\ InitDebounce
    /\ InitWatcher
    /\ current_scrcpy_process = NoProcess
    /\ children = <<>>
    /\ window_state = "unborn"
    /\ setup_shown = TRUE
    /\ show_log_on_start = TRUE
    /\ silent_polls = 0
    /\ session_state = "Idle"
    /\ exit_runs = 0
    /\ destroyed_by = None
    /\ settings = DefaultSettings
    /\ config_file \in ConfigFiles
    /\ probe = QuietProbe
    /\ rec = NoRec
    /\ edits = 0
    /\ lastConnect = NoConnect
    /\ lang_scan = NoLangScan

ConfigNext ==
    \/ Startup
    \/ SetParameter
    \/ SetOption
    \/ OnWindowClose

ConfigSpec == ConfigInit /\ [][ConfigNext]_vars

(***************************************************************************)
(* Wireless connects and the passes that follow them.                      *)
(***************************************************************************)
WirelessEntryLists ==
    {<<>>,
     <<[serial |-> "usb1", status |-> "device"]>>,
     <<[serial |-> "10.0.0.1:5555", status |-> "device"]>>,
     <<[serial |-> "10.0.0.1:5555", status |-> "offline"]>>,
     <<[serial |-> "usb1", status |-> "device"], [serial |-> "10.0.0.1:5555", status |-> "device"]>>}

WirelessScanInputs ==
    {[run |-> "ok", entries |-> l, pad |-> <<>>, outcomes |-> NoOutcomes] :
        l \in WirelessEntryLists}
    \cup {[run |-> "notfound", entries |-> <<>>, pad |-> <<>>, outcomes |-> NoOutcomes]}

WirelessInit ==
    InitUI({"zh"}, {8}) /\ InitDebounce /\ InitWatcher /\ InitSession /\ InitTools

WirelessNext ==
    \/ ScanTimerFires(WirelessScanInputs)
    \/ OnRefreshClicked(WirelessScanInputs)
    \/ ConnectWireless

WirelessSpec == WirelessInit /\ [][WirelessNext]_vars

\* The Tk main loop fires due timers.
WirelessFairSpec == WirelessSpec /\ WF_vars(ScanTimerFires(WirelessScanInputs))

(***************************************************************************)
(* The session supervisor with the passes that run beside it; a hotplug    *)
(* refresh may be waiting on its debounce timer from the start.            *)
(***************************************************************************)
SessionInit ==
    /\ InitUI({"zh"}, {8})
    /\ InitWatcher
    /\ InitSession
    /\ InitTools
    /\ afterQueue = <<>>
    /\ burst_scans = 0
    /\ \E waiting \in BOOLEAN :
          /\ refresh_scheduled = IF waiting THEN 1 ELSE NoTimer
          /\ refresh_timers = IF waiting THEN {1} ELSE {}
          /\ burst_lines = IF waiting THEN 1 ELSE 0

SessionNext ==
    \/ ScanTimerFires(FewScanInputs)
    \/ OnRefreshClicked(FewScanInputs)
    \/ DoScheduledRefresh(FewScanInputs)
    \/ OnStartNoDevice
    \/ OnStartSpawnFails
    \/ OnStartMonitoring
    \/ OnStartSilent
    \/ MonitorSilentProcess
    \/ ToggleShowLog
    \/ ChildWrites
    \/ ChildExits
    \/ ReaderReadsLine
    \/ ReaderSeesExit
    \/ WatchDetects
    \/ WatchSchedulesExit
    \/ RunLogCallback
    \/ ExitApplication
    \/ OnWindowClose

SessionSpec == SessionInit /\ [][SessionNext]_vars

\* The Tk main loop fires due timers and runs queued callbacks; the threads
\* of a session are scheduled.  The child and the user are under no
\* obligation.
SessionFairSpec ==
    /\ SessionSpec
    /\ WF_vars(MonitorSilentProcess)
    /\ WF_vars(RunLogCallback)
    /\ WF_vars(ExitApplication)
    /\ WF_vars(ReaderReadsLine)
    /\ WF_vars(ReaderSeesExit)
    /\ WF_vars(WatchDetects)
    /\ WF_vars(WatchSchedulesExit)

(***************************************************************************)
(* Launches: a run from its startup on a settings file to the spawn of a   *)
(* child, with the passes and the user's changes in between.  The command  *)
(* is built before the show-log flag is looked at, so the launches are     *)
(* those of the flag's initial value.                                      *)
(***************************************************************************)
\* No file, a file written by the program and a file written by hand.
LaunchFiles ==
    {MissingFile,
     SaveConfig([resolution |-> "Native", fps |-> "120 fps", bitrate |-> 4,
                 codec |-> "H.265 (High Quality)"],
                [DefaultSettings EXCEPT !.screen_off = TRUE], "en"),
     SaveConfig([resolution |-> "4K (3840)", fps |-> "144 fps", bitrate |-> 100,
                 codec |-> "AV1"],
                DefaultSettings, "zh")}

LaunchInit ==
    /\ InitUI({"zh"}, {8})
    /\ InitDebounce
    /\ InitWatcher
    /\ current_scrcpy_process = NoProcess
    /\ children = <<>>
    /\ window_state = "unborn"
    /\ setup_shown = TRUE
    /\ show_log_on_start = TRUE
    /\ silent_polls = 0
    /\ session_state = "Idle"
    /\ exit_runs = 0
    /\ destroyed_by = None
    /\ settings = DefaultSettings
    /\ config_file \in LaunchFiles
    /\ probe = QuietProbe
    /\ rec = NoRec
    /\ edits = 0
    /\ lastConnect = NoConnect
    /\ lang_scan = NoLangScan

LaunchNext ==
    \/ Startup
    \/ ScanTimerFires(FewScanInputs)
    \/ SetParameter
    \/ SetOption
    \/ OnStartMonitoring

LaunchSpec == LaunchInit /\ [][LaunchNext]_vars

(***************************************************************************)
(* The life of the application: the sessions, with the failures of the     *)
(* passes, of the recommendation queries and of the spawn of the tracking  *)
(* subprocess.                                                             *)
(***************************************************************************)
\* Every query of the recommendation fails.
FailingProbe ==
    [ram |-> [status |-> "error", units |-> 0],
     wm |-> [status |-> "error", lines |-> <<>>],
     getprop |-> [status |-> "error", stdout |-> <<>>]]

\* The tracking subprocess started at construction has written its first
\* line and one more, which waits in the debounce, and has ended; the
\* watcher is about to clean up and start another one.
LifeInit ==
    /\ InitUI({"zh"}, {8})
    /\ afterQueue = <<>>
    /\ refresh_scheduled = 1
    /\ refresh_timers = {1}
    /\ burst_lines = 1
    /\ burst_scans = 0
    /\ stop_event = FALSE
    /\ trackers = <<[state |-> "exited", pending |-> 0, written |-> 2, read |-> 2,
                    requests |-> 1]>>
    /\ monitor_process = 1
    /\ first_output = FALSE
    /\ monPc = "finally"
    /\ InitSession
    /\ settings = DefaultSettings
    /\ config_file = LanguageFile(current_lang)
    /\ probe = FailingProbe
    /\ rec = NoRec
    /\ edits = 0
    /\ lastConnect = NoConnect
    /\ lang_scan = NoLangScan

LifeNext ==
    \/ ScanTimerFires(FewScanInputs)
    \/ DoScheduledRefresh(FewScanInputs)
    \/ OnStartNoDevice
    \/ OnStartSpawnFails
    \/ OnStartMonitoring
    \/ OnStartSilent
    \/ MonitorSilentProcess
    \/ ToggleShowLog
    \/ ChildExits
    \/ ReaderSeesExit
    \/ WatchDetects
    \/ WatchSchedulesExit
    \/ RunLogCallback
    \/ ExitApplication
    \/ OnWindowClose
    \/ ApplyAutoConfig
    \/ MonLoop
    \/ MonSpawnFails
    \/ MonSleepDone
    \/ MonFinally

LifeSpec == LifeInit /\ [][LifeNext]_vars

(***************************************************************************)
(* What a pass is expected to produce, read off its entries.               *)
(***************************************************************************)
RECURSIVE ReadySerials(_)
ReadySerials(entries) ==
    IF entries = <<>> THEN <<>>
    ELSE (IF Head(entries).status = "device" THEN <<Head(entries).serial>> ELSE <<>>)
         \o ReadySerials(Tail(entries))

PassRan == lastPass.run # "none"
PassSerials == IF lastPass.run = "ok" THEN ReadySerials(lastPass.entries) ELSE <<>>
PassNames == DisplayNames(PassSerials, lastPass.outcomes, lastPass.lang)
HandlerPrefixes == {"info_refreshing", "info_auto_refresh"}
IsPassEntry(e) == e \notin HandlerPrefixes
\* What the pass itself logged.
PassLog == SelectSeq(lastLog, IsPassEntry)
InLog(e) == \E i \in 1..Len(lastLog) : lastLog[i] = e

(***************************************************************************)
(* Sessions, read off the children and the threads started for them.       *)
(***************************************************************************)
ChildIds == 1..Len(children)
RunningChildren == {c \in ChildIds : children[c].state = "running"}
MonitoringChildren == {c \in ChildIds : children[c].mode = "Monitoring"}
ActiveThreads ==
    {c \in ChildIds : children[c].reader \in {"reading"}
                       \/ children[c].watch \in {"polling", "sleeping"}}
StartFailed ==
    /\ lastHandler = "_on_start_clicked"
    /\ \E e \in SpawnErrors : InLog(e)
ErrorEntries == SelectSeq(lastLog, LAMBDA e : e \in SpawnErrors)

(***************************************************************************)
(* C1: at any time at most one child launched by the host is running, and  *)
(* a running child is the one the handle names: no start request spawns a  *)
(* child while an earlier one is still running.                            *)
(***************************************************************************)
C1_OneChildAtMost ==
    /\ Cardinality(RunningChildren) <= 1
    /\ \A c \in RunningChildren : current_scrcpy_process = c

\* A second session was launched after the child of the first had ended.
C1_Witness ==
    /\ Len(children) >= 2
    /\ children[1].state = "exited"
    /\ children[2].state = "running"
    /\ current_scrcpy_process = 2

(***************************************************************************)
(* C2, as stated: the handle is non-null exactly when the session state is *)
(* not Idle, so it is null again once the exit of the child was detected,  *)
(* in Monitoring mode as in Silent mode.                                   *)
(***************************************************************************)
C2_HandleIffNotIdle ==
    (current_scrcpy_process # NoProcess) <=> (session_state # "Idle")

(***************************************************************************)
(* C2, amended: the handle is null before any launch, after a failed       *)
(* launch and once the poll of Silent mode has seen the child gone; it     *)
(* names the child throughout a Monitoring or Silent session, and after a  *)
(* Monitoring launch it keeps naming that child, also once the exit of the *)
(* child was detected and the session state is Idle again.                 *)
(***************************************************************************)
C2_HandleKeptAfterMonitoring ==
    /\ (current_scrcpy_process # NoProcess)
          <=> (session_state # "Idle" \/ MonitoringChildren # {})
    /\ current_scrcpy_process # NoProcess
          => /\ current_scrcpy_process \in ChildIds
             /\ current_scrcpy_process = Len(children)
             /\ session_state \in {"Idle", children[current_scrcpy_process].mode}
    /\ session_state = "Silent" => children[current_scrcpy_process].mode = "Silent"

\* The exit of the child of a Monitoring session was detected: the session
\* state is Idle and the handle still names the child.
C2_Witness ==
    /\ session_state = "Idle"
    /\ current_scrcpy_process # NoProcess
    /\ children[current_scrcpy_process].mode = "Monitoring"
    /\ children[current_scrcpy_process].state = "exited"
    /\ children[current_scrcpy_process].watch \in {"sleeping", "done"}

(***************************************************************************)
(* C3: after a launch in Silent mode the window is hidden for as long as   *)
(* the child runs, and a poll is pending only during a Silent session;     *)
(* once the child has exited, with any exit code, the poll sees it: the    *)
(* window is restored, the handle is cleared, no poll is left pending and  *)
(* the start control is enabled in the setup view.                         *)
(***************************************************************************)
C3_SilentHidesAndRestores ==
    /\ [](\A c \in RunningChildren :
             children[c].mode = "Silent" => window_state = "withdrawn")
    /\ [](session_state # "Silent" => silent_polls = 0)
    /\ [](session_state = "Silent" => silent_polls = 1)
    /\ \A code \in ExitCodes :
          (/\ session_state = "Silent"
           /\ children[current_scrcpy_process].state = "exited"
           /\ children[current_scrcpy_process].code = code)
          ~> (/\ current_scrcpy_process = NoProcess
              /\ session_state = "Idle"
              /\ window_state = "normal"
              /\ silent_polls = 0
              /\ SetupClickable
              /\ start_button_state = "normal")

\* The poll has restored the window after the child of a Silent session
\* ended with a non-zero exit code.
C3_Witness ==
    /\ lastHandler = "_monitor_silent_process"
    /\ InLog("info_window_restored")
    /\ Len(children) >= 1
    /\ children[Len(children)].mode = "Silent"
    /\ children[Len(children)].code = 1
    /\ window_state = "normal"
    /\ current_scrcpy_process = NoProcess

(***************************************************************************)
(* C4, as stated: once the child of a Monitoring session has exited,       *)
(* _exit_application eventually runs.                                      *)
(***************************************************************************)
C4_ShutdownAfterExit ==
    (\E c \in MonitoringChildren : children[c].state = "exited") ~> (exit_runs = 1)

(***************************************************************************)
(* C4, amended: _exit_application runs on the control thread, never before *)
(* the child of the Monitoring session has exited and never twice; once    *)
(* that child has exited, _exit_application eventually runs, unless the    *)
(* user closes the window first: _on_window_close then ends the            *)
(* application and _exit_application does not run.                         *)
(***************************************************************************)
C4_ShutdownAfterExitUnlessClosed ==
    /\ [](exit_runs <= 1)
    /\ [](exit_runs >= 1 =>
             /\ lastHandler = "_exit_application"
             /\ destroyed_by = "_exit_application"
             /\ \E c \in MonitoringChildren : children[c].state = "exited")
    /\ [](\A i \in 1..Len(afterQueue) :
             afterQueue[i].f = "_exit_application"
                => \E c \in MonitoringChildren : children[c].state = "exited")
    /\ (\E c \in MonitoringChildren : children[c].state = "exited")
          ~> (exit_runs = 1 \/ destroyed_by = "_on_window_close")

\* _exit_application has run after the child of a Monitoring session ended.
C4_Witness ==
    /\ exit_runs = 1
    /\ destroyed_by = "_exit_application"
    /\ \E c \in MonitoringChildren : children[c].state = "exited" /\ children[c].watch = "done"

(***************************************************************************)
(* C5: after a start request whose spawn failed, exactly one error entry   *)
(* was logged by it, the handle is null, the session state is Idle, the    *)
(* window is visible in its setup view, and no reader, watch thread or     *)
(* poll is running.                                                        *)
(***************************************************************************)
C5_SpawnFailureLeavesIdle ==
    StartFailed =>
        /\ Len(ErrorEntries) = 1
        /\ lastLog[Len(lastLog)] \in SpawnErrors
        /\ current_scrcpy_process = NoProcess
        /\ session_state = "Idle"
        /\ SetupClickable
        /\ silent_polls = 0
        /\ ActiveThreads = {}

\* A spawn failed after an earlier Silent session had come and gone.
C5_Witness ==
    /\ StartFailed
    /\ InLog("log_launch_failed")
    /\ Len(children) >= 1
    /\ children[1].mode = "Silent"

(***************************************************************************)
(* C11: the recommendation is the high tier, 2K (2560) at bitrate 20,      *)
(* exactly when the screen size is known, its larger dimension exceeds     *)
(* 2500 and the host RAM is at least 16 GiB; it is the standard tier,      *)
(* 1080P (1920) at bitrate 10, in every other case; fps is 60 and the      *)
(* codec is H.264 in all cases, and these are the values applied.          *)
(***************************************************************************)
C11_TierByScreenAndRam ==
    rec # NoRec =>
        LET known == rec.screen_size # NoScreen
            high == /\ known
                    /\ (rec.screen_size[1] > 2500 \/ rec.screen_size[2] > 2500)
                    /\ rec.pc_ram >= 16
        IN  /\ high => rec.resolution = "2K (2560)" /\ rec.bitrate = 20
            /\ ~high => rec.resolution = "1080P (1920)" /\ rec.bitrate = 10
            /\ rec.fps = "60 fps"
            /\ rec.codec = "H.264 (Low Latency)"
            /\ params = [resolution |-> rec.resolution, fps |-> rec.fps,
                         bitrate |-> rec.bitrate, codec |-> rec.codec]

\* The larger dimension is 2500 with 16 GiB or more: the standard tier.
C11_Witness ==
    /\ rec # NoRec
    /\ rec.screen_size = <<1600, 2500>>
    /\ rec.pc_ram >= 16
    /\ rec.resolution = "1080P (1920)"

(***************************************************************************)
(* C12: whichever of the three queries fail, the result is complete: a     *)
(* failed RAM query gives 8, a failed screen query gives an unknown size,  *)
(* a failed model query gives "Unknown", and a query that succeeded gives  *)
(* the value it obtained: the whole GiB of the RAM, the size of a line of  *)
(* the output (of a "Physical size" line when there is one), the model     *)
(* without its surrounding whitespace.                                     *)
(***************************************************************************)
C12_FailedQueriesDefault ==
    rec # NoRec =>
        /\ rec.resolution \in {"2K (2560)", "1080P (1920)"}
        /\ rec.bitrate \in {10, 20}
        /\ rec.fps = "60 fps"
        /\ rec.codec = "H.264 (Low Latency)"
        /\ probe.ram.status # "ok" => rec.pc_ram = 8
        /\ probe.ram.status = "ok" =>
              /\ 2 * rec.pc_ram <= probe.ram.units
              /\ probe.ram.units < 2 * (rec.pc_ram + 1)
        /\ probe.wm.status # "ok" => rec.screen_size = NoScreen
        /\ probe.wm.status = "ok" =>
              LET sized == {i \in 1..Len(probe.wm.lines) : probe.wm.lines[i].label # "other"}
                  physical == {i \in sized : probe.wm.lines[i].label = "Physical size"}
              IN  /\ sized = {} => rec.screen_size = NoScreen
                  /\ sized # {} =>
                        \E i \in (IF physical # {} THEN physical ELSE sized) :
                            rec.screen_size = <<probe.wm.lines[i].w, probe.wm.lines[i].h>>
        /\ probe.getprop.status # "ok" => rec.device_model = <<"Unknown">>
        /\ probe.getprop.status = "ok" =>
              IF \A i \in 1..Len(probe.getprop.stdout) : probe.getprop.stdout[i] \in Whitespace
              THEN rec.device_model = <<"Unknown">>
              ELSE rec.device_model = <<"X1">>

\* The RAM query and the model query failed and the screen query succeeded.
C12_Witness ==
    /\ rec # NoRec
    /\ probe.ram.status = "error"
    /\ probe.getprop.status = "error"
    /\ probe.wm.status = "ok"
    /\ rec.screen_size = <<1880, 3008>>
    /\ rec.pc_ram = 8
    /\ rec.resolution = "1080P (1920)"

(***************************************************************************)
(* C13: a run that starts on the file the previous run saved at its close  *)
(* holds the stream parameters the previous run held: resolution, fps,     *)
(* bitrate, codec, screen-off, borderless, window position and print-fps.  *)
(***************************************************************************)
StreamParameters(p, st) ==
    <<p.resolution, p.fps, p.bitrate, p.codec, st.screen_off, st.borderless,
      st.window_position, st.print_fps>>

C13_SaveLoadRoundTrip ==
    [][(window_state = "destroyed" /\ window_state' = "normal")
          => StreamParameters(params', settings') = StreamParameters(params, settings)]_vars

(***************************************************************************)
(* C14: whatever the settings file holds, startup does not end in an       *)
(* uncaught error, and after it every setting holds a value of its domain. *)
(***************************************************************************)
C14_StartupNeverFatal ==
    /\ window_state # "crashed"
    /\ (lastHandler = "__init__" /\ window_state = "normal") =>
          /\ params.resolution \in Resolutions
          /\ params.fps \in FpsChoices
          /\ params.bitrate \in 4..40
          /\ params.codec \in Codecs
          /\ current_lang \in Langs

(***************************************************************************)
(* C15: a connect to address A whose output contains "connected" marks     *)
(* A:5555 pending-select and schedules an enumeration, which is run; any   *)
(* other connect leaves the mark and the timers as they are.  A pass whose *)
(* device list holds the pending serial selects the label of that serial   *)
(* and clears the mark; any other pass leaves the mark.                    *)
(***************************************************************************)
PassHandlers == {"_scan_devices", "_on_refresh_clicked", "_do_scheduled_refresh"}
InSeq(x, seq) == \E i \in 1..Len(seq) : seq[i] = x
ConnectStep == lastHandler' = "_connect_wireless"
SaysConnected(output) ==
    \E i \in 1..Len(output) : output[i] \in {"connected", "Connected"}
PassStep == lastHandler' \in PassHandlers
PassFinds(serial) == lastPass'.run = "ok" /\ InSeq(serial, ReadySerials(lastPass'.entries))

C16_NonZeroExitWarned ==
    \A mode \in {"Monitoring", "Silent"} :
        (\E c \in ChildIds : /\ children[c].mode = mode
                             /\ children[c].state = "exited"
                             /\ children[c].code # 0)
        ~> (InLog("log_scrcpy_exit_code") \/ ~Alive)

(***************************************************************************)
(* C17: no output of the child of a Silent session is left in a pipe that  *)
(* no task of the host reads.                                              *)
(***************************************************************************)
C17_SilentOutputDiscarded ==
    \A c \in ChildIds :
        (children[c].mode = "Silent" /\ children[c].reader = "none")
            => children[c].unread = 0

(***************************************************************************)
(* C18: the window is destroyed by _on_window_close, on the user's close,  *)
(* or by _exit_application, which runs only after the child of a           *)
(* Monitoring session has exited; a failed pass, a failed recommendation   *)
(* query, a failed spawn of the tracking subprocess and the exit of the    *)
(* child of a Silent session leave the application running.                *)
(***************************************************************************)
C18_OnlyMonitoringShutdown ==
    /\ window_state \in {"normal", "withdrawn", "destroyed"}
    /\ window_state = "destroyed" <=> destroyed_by \in {"_on_window_close", "_exit_application"}
    /\ window_state = "destroyed" => lastHandler = destroyed_by
    /\ destroyed_by = "_exit_application" =>
          \E c \in MonitoringChildren : children[c].state = "exited"
    /\ destroyed_by = "_on_window_close" => exit_runs = 0

\* The application runs on after a failed pass, a failed recommendation
\* query, a failed spawn of the tracking subprocess and the exit of the
\* child of a Silent session.
C18_Witness ==
    /\ Alive
    /\ lastPass.run = "notfound"
    /\ rec # NoRec
    /\ rec.pc_ram = 8
    /\ monPc \in {"sleep5", "sleep2"}
    /\ InLog("info_window_restored")
    /\ current_scrcpy_process = NoProcess
    /\ children # <<>>
    /\ children[Len(children)].code = 1

(***************************************************************************)
(* C19: the argument list of every child that is spawned holds -m and one  *)
(* of 2560, 1920, 1280, the one of the resolution, and no -m for Native;   *)
(* --max-fps= with one of 120, 90, 60, 30, the one of the frame rate; -b   *)
(* and <n>M with n the bitrate, 4 <= n <= 40; --video-codec= with h264 or  *)
(* h265, the one of the codec; and --turn-screen-off, --window-borderless  *)
(* and --print-fps exactly when the setting is on.                         *)
(***************************************************************************)
\* The arguments of command that begin with the literal text.
ArgsOf(command, text) == {i \in 1..Len(command) : command[i].text = text}

\* The value that follows the only argument text of command; <<>> if
\* there is not exactly one such argument.
ValueAfter(command, text) ==
    IF Cardinality(ArgsOf(command, text)) = 1
    THEN LET i == CHOOSE k \in ArgsOf(command, text) : TRUE
         IN  IF i < Len(command) /\ command[i + 1].text = "" THEN command[i + 1].value
             ELSE <<>>
    ELSE <<>>

\* The value of the only argument that begins with text.
ValueOf(command, text) ==
    IF Cardinality(ArgsOf(command, text)) = 1
    THEN command[CHOOSE k \in ArgsOf(command, text) : TRUE].value
    ELSE <<>>

\* The number a text of digits stands for.
RECURSIVE Number(_)
Number(cs) ==
    IF cs = <<>> THEN 0
    ELSE 10 * Number(SubSeq(cs, 1, Len(cs) - 1))
         + (CHOOSE d \in 0..9 : DigitChars[d + 1] = cs[Len(cs)])

AllDigits(cs) == cs # <<>> /\ \A i \in 1..Len(cs) : IsDigit(cs[i])

CommandCarries(command, p, st) ==
    /\ IF p.resolution = "Native" THEN ArgsOf(command, "-m") = {}
       ELSE /\ AllDigits(ValueAfter(command, "-m"))
            /\ Number(ValueAfter(command, "-m")) \in {2560, 1920, 1280}
            /\ p.resolution = "2K (2560)" <=> Number(ValueAfter(command, "-m")) = 2560
            /\ p.resolution = "1080P (1920)" <=> Number(ValueAfter(command, "-m")) = 1920
            /\ p.resolution = "720P (1280)" <=> Number(ValueAfter(command, "-m")) = 1280
    /\ AllDigits(ValueOf(command, "--max-fps="))
    /\ Number(ValueOf(command, "--max-fps=")) \in {120, 90, 60, 30}
    /\ \A n \in {120, 90, 60, 30} :
          p.fps = (CASE n = 120 -> "120 fps" [] n = 90 -> "90 fps" [] n = 60 -> "60 fps"
                     [] OTHER -> "30 fps")
          <=> Number(ValueOf(command, "--max-fps=")) = n
    /\ LET b == ValueAfter(command, "-b")
       IN  /\ Len(b) >= 2
           /\ b[Len(b)] = "M"
           /\ AllDigits(SubSeq(b, 1, Len(b) - 1))
           /\ Number(SubSeq(b, 1, Len(b) - 1)) = p.bitrate
           /\ p.bitrate >= 4
           /\ p.bitrate <= 40
    /\ ValueOf(command, "--video-codec=") \in {<<"h", "2", "6", "4">>, <<"h", "2", "6", "5">>}
    /\ p.codec = "H.264 (Low Latency)"
          <=> ValueOf(command, "--video-codec=") = <<"h", "2", "6", "4">>
    /\ p.codec = "H.265 (High Quality)"
          <=> ValueOf(command, "--video-codec=") = <<"h", "2", "6", "5">>
    /\ st.screen_off <=> ArgsOf(command, "--turn-screen-off") # {}
    /\ st.borderless <=> ArgsOf(command, "--window-borderless") # {}
    /\ st.print_fps <=> ArgsOf(command, "--print-fps") # {}

C20_StopEndsWatcher ==
    /\ stop_event ~> (/\ monPc \in {"done", "killed"}
                      /\ \A p \in 1..Len(trackers) : trackers[p].state # "running")
    /\ [][(stop_event /\ monPc \in {"done", "finally", "loop"})
            => Len(trackers') = Len(trackers)]_vars

(***************************************************************************)
(* C23, as stated: when _exit_application shuts the application down after *)
(* a Monitoring session, every line the child wrote was read and logged,   *)
(* the exit entry of the reader was logged, and no log entry is left in    *)
(* the queue of the control thread.                                        *)
(***************************************************************************)
C23_LoggedBeforeShutdown ==
    [][(window_state # "destroyed" /\ destroyed_by' = "_exit_application")
          => /\ \A c \in MonitoringChildren :
                   children[c].unread = 0 /\ children[c].reader = "done"
             /\ \A i \in 1..Len(afterQueue') : afterQueue'[i].f # "_log"]_vars

(***************************************************************************)
(* C24: the step that destroys the window, in _on_window_close and in      *)
(* _exit_application, has written the settings file from the parameters,   *)
(* the options and the language and has set the stop signal of the watcher.*)
(***************************************************************************)
FileHolds(file, p, st, lang) ==
    /\ file.kind = "object"
    /\ {"resolution", "fps", "bitrate", "codec", "screen_off", "language"}
          \subseteq DOMAIN file.doc
    /\ JsonValue(file.doc["resolution"]) = p.resolution
    /\ JsonValue(file.doc["fps"]) = p.fps
    /\ JsonValue(file.doc["bitrate"]) = p.bitrate
    /\ JsonValue(file.doc["codec"]) = p.codec
    /\ JsonValue(file.doc["screen_off"]) = st.screen_off
    /\ JsonValue(file.doc["language"]) = lang

C28_HiddenWindowIsWatched ==
    window_state = "withdrawn"
        => /\ current_scrcpy_process # NoProcess
           /\ children[current_scrcpy_process].mode = "Silent"
           /\ silent_polls >= 1

\* The window is hidden, the child has ended and a pass has run meanwhile.
C28_Witness ==
    /\ window_state = "withdrawn"
    /\ current_scrcpy_process # NoProcess
    /\ children[current_scrcpy_process].state = "exited"
    /\ silent_polls = 1
    /\ lastHandler = "_scan_devices"

(***************************************************************************)
(* C22, as stated: a step of the thread started by the language-change     *)
(* handler leaves the device list, the label-to-serial map, the selector,  *)
(* the selection and the stream parameters as they are.                    *)
(***************************************************************************)
C22_ThreadLeavesStateAlone ==
    [][(lang_scan.pc # "idle" /\ lang_scan' # lang_scan)
          => UNCHANGED <<available_devices, device_serial_map, current_display_names,
                         dropdown_values, selected_device, params>>]_vars

(***************************************************************************)
(* C27, as stated: the device a launch passes to the mirroring tool is the *)
(* text of a serial, never a label.                                        *)
(***************************************************************************)
C27_LaunchPassesSerial ==
    [][Len(children') > Len(children)
          => \E serial \in Serials \cup {TwinSerial} :
                children'[Len(children')].device = SerialText(serial)]_vars

(***************************************************************************)
(* C29, as stated: once no pass is running and the latest one succeeded,   *)
(* the labels, the serials and the map are those of one pass: the selector *)
(* shows the labels, and the map takes each label to the serial at the     *)
(* same position.                                                          *)
(***************************************************************************)
C29_OnePassAfterOverlap ==
    (lang_scan.pc = "idle" /\ lastPass.run = "ok")
        => /\ Len(current_display_names) = Len(available_devices)
           /\ device_serial_map = BuildMap(current_display_names, available_devices,
                                           EmptyMap)
           /\ current_display_names # <<>> => dropdown_values = current_display_names

(***************************************************************************)
(* C30, as stated: once a pass has run, the start control is enabled only  *)
(* if the latest pass found a ready device.                                *)
(***************************************************************************)
C30_StartEnabledOnlyWithDevice ==
    (lastPass.run # "none" /\ start_button_state = "normal")
        => (lastPass.run = "ok" /\ ReadySerials(lastPass.entries) # <<>>)

(***************************************************************************)
(* C25, as stated: a pass that leaves the selected device as it was leaves *)
(* resolution, fps, bitrate and codec as they were.                        *)
(***************************************************************************)
C25_ParametersKeptBySameSelection ==
    [][(lastHandler' \in PassHandlers /\ selected_device' = selected_device)
          => params' = params]_vars

(***************************************************************************)
(* C26, as stated: after a pass that succeeded, every ready serial of the  *)
(* pass is the value of a label of the map, the map has one label for each *)
(* of them, and the labels of the selector are pairwise distinct.          *)
(***************************************************************************)
C26_EverySerialSelectable ==
    lastPass.run = "ok"
        => /\ \A i \in 1..Len(available_devices) :
                 \E l \in DOMAIN device_serial_map :
                    device_serial_map[l] = available_devices[i]
           /\ Cardinality(DOMAIN device_serial_map) = Len(available_devices)
           /\ \A i, j \in 1..Len(current_display_names) :
                 i # j => current_display_names[i] # current_display_names[j]

(***************************************************************************)
(* C21, as stated: a watcher that finds its tracking subprocess ended, or  *)
(* whose spawn fails, sleeps next, before the cleanup that leads back to   *)
(* the spawn.                                                              *)
(***************************************************************************)
C21_WaitBeforeRespawn ==
    [][/\ (/\ monPc = "poll"
            /\ trackers[monitor_process].state # "running"
            /\ monPc' # monPc) => monPc' \in {"sleep5", "sleep2"}
       /\ (/\ monPc = "spawn"
            /\ Len(trackers') = Len(trackers)
            /\ monPc' # monPc) => monPc' \in {"sleep5", "sleep2"}]_vars

(***************************************************************************)
(* C6: a burst is a run of refresh requests with no firing of the debounce *)
(* timer in between.  At most one debounce timer is pending; at most one   *)
(* enumeration is run for a burst, it runs when no request of the burst is *)
(* left waiting on a timer, and a burst whose timer is gone has had its    *)
(* enumeration; and while the window exists a pending timer leads to that  *)
(* enumeration.                                                            *)
(***************************************************************************)
C6_BurstInv ==
    /\ Cardinality(refresh_timers) <= 1
    /\ burst_scans <= 1
    /\ burst_scans = 1 => refresh_timers = {} /\ refresh_scheduled = NoTimer
    /\ (burst_lines > 0 /\ refresh_timers = {}) => burst_scans = 1

C6_OneRefreshPerBurst ==
    /\ []C6_BurstInv
    /\ (burst_lines > 0 /\ burst_scans = 0) ~> (burst_scans = 1 \/ ~Alive)

C6_Witness ==
    /\ burst_lines >= 2
    /\ burst_scans = 1
    /\ refresh_timers = {}

(***************************************************************************)
(* C7: of the lines read from one tracking subprocess, the first produces  *)
(* no refresh request and every later one produces exactly one: the        *)
(* requests made for a subprocess number one less than the lines read from *)
(* it, and none when no line was read.                                     *)
(***************************************************************************)
C7_FirstLineSkipped ==
    \A p \in 1..Len(trackers) :
        trackers[p].requests = IF trackers[p].read = 0 THEN 0 ELSE trackers[p].read - 1

C7_Witness ==
    /\ Len(trackers) = 2
    /\ trackers[1].read >= 1
    /\ trackers[2].read = 2
    /\ trackers[2].requests = 1

(***************************************************************************)
(* C8: after a pass whose device-list call succeeded, the enumerated       *)
(* device list is exactly the serials of the entries with status "device", *)
(* in output order; when there is none, the list is empty, the "no device" *)
(* entry is logged and the start control is disabled.                      *)
(***************************************************************************)
C8_ReadySerialsOnly ==
    lastPass.run = "ok" =>
        /\ available_devices = ReadySerials(lastPass.entries)
        /\ Len(current_display_names) = Len(available_devices)
        /\ ReadySerials(lastPass.entries) = <<>> =>
                /\ current_display_names = <<>>
                /\ InLog("log_no_device")
                /\ start_button_state = "disabled"

C8_Witness ==
    /\ lastPass.run = "ok"
    /\ Len(lastPass.entries) = 2
    /\ lastPass.entries[1].status = "unauthorized"
    /\ lastPass.entries[2].status = "offline"
    /\ available_devices = <<>>
    /\ start_button_state = "disabled"

(***************************************************************************)
(* C9, as stated: after a pass whose device-list call failed because the   *)
(* bridge tool is missing or the call timed out, the device list is empty  *)
(* and the pass has logged one message.                                    *)
(***************************************************************************)
C9_OneLoggedMessage ==
    lastPass.run \in {"notfound", "timeout"} =>
        /\ current_display_names = <<>>
        /\ Len(PassLog) = 1

(***************************************************************************)
(* C9, amended: after such a pass the selectable device list is empty, the *)
(* pass has logged two messages, the message of the failure and then the   *)
(* "no device" message, and the window still takes a refresh.              *)
(***************************************************************************)
C9_EmptyListTwoMessages ==
    lastPass.run \in {"notfound", "timeout"} =>
        /\ current_display_names = <<>>
        /\ dropdown_values = <<Text(Locale("no_device", current_lang))>>
        /\ PassLog = <<(IF lastPass.run = "notfound" THEN "log_adb_not_found"
                        ELSE "log_adb_timeout"), "log_no_device">>
        /\ SetupClickable

C9_Witness ==
    /\ lastPass.run = "timeout"
    /\ available_devices # <<>>
    /\ current_display_names = <<>>

(***************************************************************************)
(* C10: after every pass, successful or failed, the label list, the serial *)
(* list and the label-to-serial map are exactly the records of that pass.  *)
(***************************************************************************)
C10_RecordsOfLatestPass ==
    PassRan =>
        /\ current_display_names = PassNames
        /\ available_devices = PassSerials
        /\ device_serial_map = BuildMap(PassNames, PassSerials, EmptyMap)

=============================================================================
